---- MODULE Spec2Model ----
(***************************************************************************)
(* Justia lawyer scraper: the page loop of two variants of the actor.      *)
(*   "hybrid"  - src/unnamed/part_001: HTTP page loop (got-scraping) that  *)
(*               hands the run to a PlaywrightCrawler (runBrowserFallback) *)
(*               when a listing page is classified blocked.                *)
(*   "cheerio" - src/src/main.js lines 1-848: CheerioCrawler request       *)
(*               handler, HTTP only.                                       *)
(* Spec is the run of either variant; SpecOptions is the same run started  *)
(* from the raw option values of the input.                                *)
(*   SpecInput    - input validation and the slug of a search term         *)
(*   SpecExtract  - one call of one listing extractor on a document        *)
(*   SpecPage     - the extraction cascade and the dedup loop of one page  *)
(*   SpecMerge    - the enrichment merge of one field of a record          *)
(*   SpecClassify - the blocked / not blocked test of one response         *)
(*   SpecHandlers - the crawlers' request handlers as concurrent tasks     *)
(*                  (also part_002, the browser-first variant)             *)
(*   SpecWalk     - the generic walk over one parsed JSON value            *)
(*   SpecCycle    - a run with unlimited budgets over a pagination graph   *)
(***************************************************************************)
EXTENDS Naturals, Integers, Sequences, FiniteSets, TLC

(* ------------------------------ bounds --------------------------------- *)
\* inputs maxLawyers and maxPages range over 0..MaxLawyersIn, 0..MaxPagesIn
MaxLawyersIn == 1
MaxPagesIn == 1
\* number of distinct listing URLs of the site (1 is the start URL)
NumUrls == 2
\* most candidate records the extractors return for one page
MaxCand == 2
\* cap on the iterations of the HTTP page loop (it has no other cap when
\* maxPages = 0 and maxLawyers = 0)
MaxIter == 2
\* elements of one parsed JSON document
MaxItems == 2
\* characters of the practiceArea and location input strings
MaxSlugLen == 2
\* chunks of each of the two parts of a response body
MaxChunks == 1
\* request handlers the crawler runs at the same time (maxConcurrency is 8,
\* 4 and 2 in the programs)
MaxConc == 2
\* handler runs of one crawl that end in an error
MaxThrows == 1
\* containers of the JSON value handed to the walk
MaxNodes == 2
\* times the walk may take up one container before the model stops it
MaxVisits == 2

(* -------------------------- program constants -------------------------- *)
FallbackDefaultPages == 5
FallbackPageCeiling == 20
BlockedRetryLimit == 2

(* ------------------------------ helpers -------------------------------- *)
Max(a, b) == IF a >= b THEN a ELSE b
Min(a, b) == IF a <= b THEN a ELSE b

Range(s) == {s[i] : i \in 1..Len(s)}

\* all sequences over S of length at most n
SeqsUpTo(S, n) == UNION {[1..k -> S] : k \in 0..n}

(* ------------------------------ records -------------------------------- *)
\* Strings are sequences of characters so that the composite key is really
\* built by concatenation.  enr marks whether detail data was merged in.
Rec(u, n, l, f) == [url |-> u, name |-> n, location |-> l, firmName |-> f, enr |-> "base"]

RA == Rec(<<"u1">>, <<"a", "l">>, <<>>, <<>>)
RB == Rec(<<"u2">>, <<"b", "o">>, <<>>, <<>>)
RC == Rec(<<>>, <<"a", "l">>, <<>>, <<>>)
RD == Rec(<<>>, <<"a", "l", "|">>, <<>>, <<>>)
RE == Rec(<<>>, <<"a", "l">>, <<"|">>, <<>>)

\* candidate records of the crawl, and of the one-page specification
Records == {RA, RB, RC, RD}
PageRecords == Records \cup {RE}

\* `${name}|${location}|${firmName}`
CompositeKey(r) == r.name \o <<"|">> \o r.location \o <<"|">> \o r.firmName

\* lawyer.website || `${lawyer.name}|${lawyer.location}|${lawyer.firmName}`
DedupKey(r) == IF r.url # <<>> THEN r.url ELSE CompositeKey(r)

Keys(s) == {DedupKey(s[i]) : i \in 1..Len(s)}

Injective(s) == \A i, j \in 1..Len(s) : i # j => s[i] # s[j]
KeyInjective(s) == \A i, j \in 1..Len(s) : i # j => DedupKey(s[i]) # DedupKey(s[j])

\* what each extractor can return for a page whose records are among U
\* extractLawyersFromJsonObject de-duplicates by website-or-composite key
JsonObjLists(U) == {s \in SeqsUpTo(U, MaxCand) : KeyInjective(s)}
\* extractLawyersFromJsonLd keeps every named entity, repeated or not
JsonLdLists(U) == SeqsUpTo(U, MaxCand)
\* extractLawyersFromApiPayload de-duplicates by name|url-or-location
ApiPayloadLists(U) == {s \in SeqsUpTo(U, MaxCand) : Injective(s)}
\* extractListingViaHtml drops records without website and repeated websites
HtmlLists(U) == {s \in SeqsUpTo({r \in U : r.url # <<>>}, MaxCand) : KeyInjective(s)}

Extractors == {"api", "embedded", "jsonld", "next-data", "html"}
NoOuts == [e \in Extractors |-> <<>>]

Urls == 1..NumUrls
NoFetch == [kind |-> "none", mode |-> "none", url |-> 0, afterBlock |-> FALSE,
            firstAfterBlock |-> FALSE, afterNoNext |-> FALSE, afterFull |-> FALSE,
            failed |-> FALSE]

VARIABLES
    variant,            \* which program runs
    input,              \* the object Actor.getInput() returned
    maxLawyers, maxPages, fetchFullProfiles,   \* input
    pc,                 \* position of the run
    mode,               \* transport of listing fetches: lightweight | rendered
    curUrl,             \* nextUrl of the HTTP loop / request.url of a handler
    queue, known, handled, retryCount,   \* crawler request queue
    seenWebsites, totalScraped, pagesProcessed,
    fbSeen, fbMaxLawyers, fbMaxRequests, \* runBrowserFallback locals
    pageBlocked, unique, enriched,       \* handler locals
    admitted,           \* the page's candidates whose key the dedup step put
                        \* into the ledger, in that order
    sink,               \* dataset: records pushed, in order
    stats,              \* statistics record written at run end
    threw,              \* a request handler has threw an error
    lastFetch,          \* the most recent network fetch and what preceded it
    blockedUrl,         \* first listing URL classified blocked, 0 if none yet
    listingHandled,     \* listing pages that went through extraction
    offered,            \* identity keys of the candidates extracted so far
    noNext,             \* next-page resolution has returned empty
    error,              \* the uncaught error that ended the run, "none" if none
    detailKept,         \* positions of the page's batch whose detail fetch was
                        \* blocked or failed
    pageYield,          \* "zero" / "some": the extractors' yield on the page
                        \* being handled, "none" between pages
    nextResolved,       \* the URL the last next-page resolution returned, 0
                        \* if empty or not attempted
    snapshot,           \* a diagnostic snapshot of the page being handled
                        \* has been written to the key-value store

    \* extraction and dedup of one page (SpecPage)
    ppc, pVariant, pMaxLawyers, pSeen, pTotal, invoked, outs, lawyers, pUnique, pSeenOut,
    \* merge of one field (SpecMerge)
    mpc, mVariant, mField, mBase, mDetail, mLd, mOutcome, mMerged,
    \* one extractor call (SpecExtract)
    xpc, xExtractor, xInput, xResult,
    \* classification of one listing response (SpecClassify)
    kpc, kVariant, kResponse, kBlocked,
    \* the crawler's request handlers as concurrent tasks (SpecHandlers)
    hVariant, hMaxLawyers, hMaxRequests,   \* program, record budget, maxRequestsPerCrawl
    hQueue, hKnown, hHandled,   \* request queue, its uniqueKeys, handled requests
    hSlots,                     \* the handler each concurrency slot is running
    hSeen, hTotal, hPages,      \* seenWebsites, totalScraped, pagesProcessed
    hSink,                      \* dataset
    hAdmitLog,                  \* keys in the order the dedup loops admitted them
    hThrows, \* handler runs that ended in an error
    \* the generic walk over one parsed JSON value (SpecWalk)
    wpc, wVariant, wChildren, wItem, wStack, wVisited, wCount, wResults,
    \* a run with unlimited budgets over a fixed pagination graph (SpecCycle)
    ypc, yVariant, yLinks, yMode, yUrl, yQueue, yKnown, yRetry, yHandled

crawlVars == <<variant, maxLawyers, maxPages, fetchFullProfiles, pc, mode, curUrl,
               queue, known, handled, retryCount, seenWebsites, totalScraped,
               pagesProcessed, fbSeen, fbMaxLawyers, fbMaxRequests, pageBlocked,
               unique, enriched, sink, stats, threw,
               lastFetch, blockedUrl, listingHandled, offered, noNext, error,
               detailKept, pageYield, nextResolved, input, admitted, snapshot>>
onePageVars == <<ppc, pVariant, pMaxLawyers, pSeen, pTotal, invoked, outs, lawyers,
                 pUnique, pSeenOut>>
mergeVars == <<mpc, mVariant, mField, mBase, mDetail, mLd, mOutcome, mMerged>>
extractVars == <<xpc, xExtractor, xInput, xResult>>
classifyVars == <<kpc, kVariant, kResponse, kBlocked>>
handlerVars == <<hVariant, hMaxLawyers, hMaxRequests, hQueue, hKnown, hHandled, hSlots,
                 hSeen, hTotal, hPages, hSink, hAdmitLog, hThrows>>
walkVars == <<wpc, wVariant, wChildren, wItem, wStack, wVisited, wCount, wResults>>
cycleVars == <<ypc, yVariant, yLinks, yMode, yUrl, yQueue, yKnown, yRetry, yHandled>>
otherVars == <<onePageVars, mergeVars, extractVars, classifyVars, handlerVars, walkVars, cycleVars>>
vars == <<crawlVars, onePageVars, mergeVars, extractVars, classifyVars, handlerVars, walkVars, cycleVars>>

inputVars == <<variant, input, maxLawyers, maxPages, fetchFullProfiles>>
fbVars == <<fbSeen, fbMaxLawyers, fbMaxRequests>>
queueVars == <<queue, known, handled, retryCount>>
pageVars == <<pageBlocked, unique, enriched, admitted>>
auxVars == <<error, detailKept>>
stepVars == <<pageYield, nextResolved, snapshot>>


(* ------------------------------- Init ---------------------------------- *)
OnePageIdle ==
    /\ ppc = "idle" /\ pVariant = "none" /\ pMaxLawyers = 0 /\ pSeen = {} /\ pTotal = 0
    /\ invoked = {} /\ outs = NoOuts /\ lawyers = <<>> /\ pUnique = <<>> /\ pSeenOut = {}

NoDoc == [parsed |-> FALSE, items |-> <<>>]
NoResult == [threw |-> FALSE, n |-> 0]

ExtractIdle ==
    /\ xpc = "idle" /\ xExtractor = "none"
    /\ xInput = [fetch |-> "none", doc |-> NoDoc] /\ xResult = NoResult

NoResponse == [status |-> 0, lead |-> <<>>, rest |-> <<>>]

ClassifyIdle ==
    /\ kpc = "idle" /\ kVariant = "none" /\ kResponse = NoResponse /\ kBlocked = FALSE

\* a concurrency slot that runs no handler
IdleSlot == [pos |-> "idle", url |-> 0, unique |-> <<>>, dup |-> {}]

HandlersIdle ==
    /\ hVariant = "none" /\ hMaxLawyers = 0 /\ hMaxRequests = 0
    /\ hQueue = <<>> /\ hKnown = {} /\ hHandled = 0
    /\ hSlots = [i \in 1..MaxConc |-> IdleSlot]
    /\ hSeen = {} /\ hTotal = 0 /\ hPages = 0 /\ hSink = <<>>
    /\ hAdmitLog = <<>> /\ hThrows = 0

\* an array element not examined yet
NoItem == [name |-> "", url |-> ""]

WalkIdle ==
    /\ wpc = "idle" /\ wVariant = "none" /\ wChildren = <<>> /\ wItem = NoItem
    /\ wStack = <<>> /\ wVisited = {} /\ wCount = <<>> /\ wResults = <<>>

CycleIdle ==
    /\ ypc = "idle" /\ yVariant = "none" /\ yLinks = <<>> /\ yMode = "lightweight"
    /\ yUrl = 0 /\ yQueue = <<>> /\ yKnown = {} /\ yRetry = 0 /\ yHandled = 0

MergeIdle ==
    /\ mpc = "idle" /\ mVariant = "none" /\ mField = "none" /\ mBase = "null"
    /\ mDetail = "null" /\ mLd = "null" /\ mOutcome = "none" /\ mMerged = "null"

\* an input string field: absent, or a text
Absent == [present |-> FALSE, text |-> <<>>]
Str(t) == [present |-> TRUE, text |-> t]
NoInput == [searchUrl |-> Absent, practiceArea |-> Absent, location |-> Absent,
            fetchFullProfiles |-> "absent", debug |-> "absent"]

\* the listing URL the run starts from
StartUrl == Str(<<"u">>)

\* an input that gives the searchUrl, and the two switches explicitly
UrlInput(ffp, dbg) ==
    [NoInput EXCEPT !.searchUrl = StartUrl,
                    !.fetchFullProfiles = IF ffp THEN "true" ELSE "false",
                    !.debug = IF dbg THEN "true" ELSE "false"]

\* the state in which the first listing page is about to be requested
CrawlStart ==
    /\ pc = IF variant = "hybrid" THEN "loop" ELSE "c_pick"
    /\ mode = "lightweight"
    /\ curUrl = IF variant = "hybrid" THEN 1 ELSE 0
    /\ queue = IF variant = "hybrid" THEN <<>> ELSE <<1>>
    /\ known = IF variant = "hybrid" THEN {} ELSE {1}
    /\ handled = 0 /\ retryCount = 0
    /\ seenWebsites = {} /\ totalScraped = 0 /\ pagesProcessed = 0
    /\ fbSeen = {} /\ fbMaxLawyers = 0 /\ fbMaxRequests = 0
    /\ pageBlocked = FALSE /\ unique = <<>> /\ enriched = <<>> /\ admitted = <<>>
    /\ sink = <<>> /\ stats = [written |-> FALSE, totalLawyersScraped |-> 0, pagesProcessed |-> 0]
    /\ threw = FALSE
    /\ lastFetch = NoFetch /\ blockedUrl = 0
    /\ listingHandled = 0 /\ offered = {} /\ noNext = FALSE
    /\ error = "none" /\ detailKept = {}
    /\ pageYield = "none" /\ nextResolved = 0 /\ snapshot = FALSE
    /\ OnePageIdle
    /\ MergeIdle
    /\ ExtractIdle
    /\ ClassifyIdle
    /\ HandlersIdle
    /\ WalkIdle
    /\ CycleIdle

\* const debug = false (part_001) / input.debug ?? false (main.js)
Debug == variant = "cheerio" /\ input.debug = "true"

\* input.fetchFullProfiles as the page loop tests it (part_001) /
\* input.fetchFullProfiles ?? true (main.js)
FetchFullProfilesOf(v, raw) == IF v = "cheerio" THEN raw # "false" ELSE raw = "true"

Init ==
    /\ variant \in {"hybrid", "cheerio"}
    /\ maxLawyers \in 0..MaxLawyersIn
    /\ maxPages \in 0..MaxPagesIn
    /\ fetchFullProfiles \in BOOLEAN
    /\ input = UrlInput(fetchFullProfiles, FALSE)
    /\ CrawlStart

\* the run starts from any setting of the two switches, absent included
InitOptions ==
    /\ variant \in {"hybrid", "cheerio"}
    /\ maxLawyers = 0
    /\ maxPages \in 0..MaxPagesIn
    /\ input \in {[NoInput EXCEPT !.searchUrl = StartUrl, !.fetchFullProfiles = f,
                                   !.debug = d] :
                     f \in {"absent", "false", "true"}, d \in {"false", "true"}}
    /\ fetchFullProfiles = FetchFullProfilesOf(variant, input.fetchFullProfiles)
    /\ CrawlStart

EverBlocked == blockedUrl # 0

\* a network fetch is issued: remember its transport and what preceded it
FetchIssued(kind, m, url, failed) ==
    lastFetch' = [kind |-> kind, mode |-> m, url |-> url, afterBlock |-> EverBlocked,
                  firstAfterBlock |-> (EverBlocked /\ ~lastFetch.afterBlock),
                  afterNoNext |-> noNext,
                  afterFull |-> (maxLawyers > 0 /\ Len(sink) >= maxLawyers),
                  failed |-> failed]

\* the fetch came back with a response
Fetched(kind, m, url) == FetchIssued(kind, m, url, FALSE)

\* the fetch, retries included, ended in a transport failure
FetchFailed(kind, m, url) == FetchIssued(kind, m, url, TRUE)

FetchOutcomes == {"ok", "blocked", "error"}

NoFetchNow == UNCHANGED lastFetch

\* the page's batch has been handed to the sink
ClearBatch == unique' = <<>> /\ enriched' = <<>> /\ admitted' = <<>>

ClearPage ==
    /\ pageBlocked' = FALSE /\ detailKept' = {} /\ pageYield' = "none"
    /\ snapshot' = FALSE
    /\ ClearBatch

\* the candidates of ls whose key entered the ledger on this page: the first
\* candidate of each key that is in the ledger after the page and was not before
RECURSIVE NewlyAdmitted(_, _, _)
NewlyAdmitted(ls, before, after) ==
    IF ls = <<>> THEN <<>>
    ELSE LET k == DedupKey(Head(ls)) IN
         IF k \in after /\ k \notin before
         THEN <<Head(ls)>> \o NewlyAdmitted(Tail(ls), before \cup {k}, after)
         ELSE NewlyAdmitted(Tail(ls), before, after)

\* lawyers.length === 0 after the extractors
YieldOf(ls) == IF ls = <<>> THEN "zero" ELSE "some"

DetailOutcomes == {"ok", "blocked", "failed"}

(* ---------------- hybrid: HTTP page loop (part_001) -------------------- *)
RecordBudgetHit == maxLawyers > 0 /\ totalScraped >= maxLawyers
PageBudgetHit == maxPages > 0 /\ pagesProcessed >= maxPages

\* maxRequestsPerCrawl: Math.min(20, Math.max(1, maxPages || 5))
FallbackRequestCap(mp) ==
    Min(FallbackPageCeiling, Max(1, IF mp = 0 THEN FallbackDefaultPages ELSE mp))

\* while (nextUrl) { budget breaks; pagesProcessed += 1; fetchHttp; blocked? }
H_Fetch ==
    /\ variant = "hybrid" /\ pc = "loop"
    /\ curUrl # 0 /\ ~PageBudgetHit /\ ~RecordBudgetHit
    /\ pagesProcessed < MaxIter
    /\ pagesProcessed' = pagesProcessed + 1
    /\ \E outcome \in FetchOutcomes :
         IF outcome = "error"
         THEN \* `await fetchHttp(nextUrl, ...)` rejects: nothing between it and
              \* the run-level `catch (err) { ...; throw err; }`
              /\ FetchFailed("listing", "lightweight", curUrl)
              /\ error' = "listing-fetch"
              /\ pc' = "aborted"
              /\ UNCHANGED <<blockedUrl, mode, fbVars, queueVars, detailKept>>
         ELSE IF outcome = "blocked"
         THEN \* runBrowserFallback({startUrl: nextUrl, ...}); break
              /\ Fetched("listing", "lightweight", curUrl)
              /\ UNCHANGED auxVars
              /\ blockedUrl' = IF blockedUrl = 0 THEN curUrl ELSE blockedUrl
              /\ mode' = "rendered"
              /\ fbSeen' = {}
              /\ fbMaxLawyers' = IF maxLawyers > 0 THEN Max(0, maxLawyers - totalScraped) ELSE 0
              /\ fbMaxRequests' = FallbackRequestCap(
                     IF maxPages > 0 THEN Max(0, maxPages - pagesProcessed') ELSE 0)
              /\ queue' = <<curUrl>> /\ known' = {curUrl} /\ handled' = 0
              /\ pc' = "fb_pick"
              /\ UNCHANGED retryCount
         ELSE /\ Fetched("listing", "lightweight", curUrl)
              /\ pc' = "extract"
              /\ UNCHANGED <<blockedUrl, mode, fbVars, queueVars, auxVars>>
    /\ nextResolved' = 0
    /\ UNCHANGED <<inputVars, curUrl, seenWebsites, totalScraped, pageVars, sink, stats,
                   threw, listingHandled, offered, noNext, pageYield, snapshot, otherVars>>

\* the loop condition or one of the two budget breaks at the loop head
H_Break ==
    /\ variant = "hybrid" /\ pc = "loop"
    /\ (curUrl = 0 \/ PageBudgetHit \/ RecordBudgetHit)
    /\ pc' = "stats"
    /\ UNCHANGED <<inputVars, mode, curUrl, queueVars, seenWebsites, totalScraped,
                   pagesProcessed, fbVars, pageVars, sink, stats, threw,
                   lastFetch, blockedUrl, listingHandled, offered, noNext, auxVars, stepVars, otherVars>>

\* for (const l of lawyers) { skip no website; skip seen; add; push; break at remaining }
RECURSIVE HybridDedupFrom(_, _, _, _, _)
HybridDedupFrom(ls, i, acc, remaining, limited) ==
    IF i > Len(ls) THEN acc
    ELSE LET l == ls[i] IN
         IF l.url = <<>> THEN HybridDedupFrom(ls, i + 1, acc, remaining, limited)
         ELSE IF l.url \in acc.seen THEN HybridDedupFrom(ls, i + 1, acc, remaining, limited)
         ELSE LET acc2 == [seen |-> acc.seen \cup {l.url}, unique |-> Append(acc.unique, l)]
              IN IF limited /\ Len(acc2.unique) >= remaining THEN acc2
                 ELSE HybridDedupFrom(ls, i + 1, acc2, remaining, limited)

HybridDedup(ls, seen, ml, total) ==
    LET remaining == IF ml > 0 THEN Max(0, ml - total) ELSE Len(ls)
    IN HybridDedupFrom(ls, 1, [seen |-> seen, unique |-> <<>>], remaining, ml > 0)

\* cascade: JSON API, then embedded JSON, then HTML, each only if the
\* previous ones returned nothing
HybridCascade(api, emb, html) ==
    IF api # <<>> THEN api ELSE IF emb # <<>> THEN emb ELSE html

\* extractors the cascade calls, given what the earlier ones returned
HybridInvoked(api, emb) ==
    {"api"} \cup (IF api = <<>> THEN {"embedded"} ELSE {})
            \cup (IF api = <<>> /\ emb = <<>> THEN {"html"} ELSE {})

\* candidate lists the cascade can yield for an HTTP page
HybridPages ==
    {HybridCascade(api, emb, html) :
        api \in JsonObjLists(Records), emb \in JsonObjLists(Records),
        html \in HtmlLists(Records)}

\* extraction cascade and the dedup loop of one HTTP page
H_Extract ==
    /\ variant = "hybrid" /\ pc = "extract"
    /\ \/ \* extractListingViaJsonApi awaits fetchHttp(apiUrl) with no
          \* try/catch: the rejection ends the run
          /\ FetchFailed("api", "lightweight", curUrl)
          /\ error' = "api-fetch"
          /\ pc' = "aborted"
          /\ UNCHANGED <<offered, unique, seenWebsites, pageYield, admitted, snapshot>>
       \/ \E apiFound \in BOOLEAN :
          \E ls \in HybridPages :
            LET d == HybridDedup(ls, seenWebsites, maxLawyers, totalScraped)
            IN /\ IF apiFound THEN Fetched("api", "lightweight", curUrl) ELSE NoFetchNow
               /\ offered' = offered \cup Keys(ls)
               /\ pageYield' = YieldOf(ls)
               \* if (debug && lawyers.length === 0) maybeSaveDebugSnapshot(...)
               /\ snapshot' = (Debug /\ ls = <<>>)
               /\ UNCHANGED error
               /\ admitted' = NewlyAdmitted(ls, seenWebsites, d.seen)
               /\ IF ls # <<>>
                  THEN /\ unique' = d.unique
                       /\ seenWebsites' = d.seen
                       /\ pc' = IF fetchFullProfiles /\ d.unique # <<>> THEN "enrich"
                                ELSE "push"
                  ELSE /\ UNCHANGED <<unique, seenWebsites>>
                       /\ pc' = "next"
    /\ listingHandled' = listingHandled + 1
    /\ UNCHANGED <<inputVars, mode, curUrl, queueVars, totalScraped, pagesProcessed, fbVars,
                   pageBlocked, enriched, sink, stats, threw, blockedUrl, noNext,
                   detailKept, nextResolved, otherVars>>

\* positions of the batch whose detail fetch came back blocked or failed
Kept(os) == {i \in DOMAIN os : os[i] # "ok"}

\* base record and the outcome of its detail fetch -> record pushed
Enriched(base, o) == IF o = "ok" THEN [base EXCEPT !.enr = "merged"] ELSE base

\* for (const base of unique) { fetchProfileDetails; merge or keep base }
\* fetchProfileDetails awaits fetchHttp with no try/catch, and neither the loop
\* nor the page has one: a rejected fetch leaves the loop, the page and the
\* run through `catch (err) { log.exception(...); throw err; }`
H_Enrich ==
    /\ variant = "hybrid" /\ pc = "enrich"
    /\ \E os \in [1..Len(unique) -> DetailOutcomes] :
         /\ detailKept' = Kept(os)
         /\ IF \E i \in 1..Len(unique) : os[i] = "failed"
            THEN /\ error' = "detail-fetch"
                 /\ pc' = "aborted"
                 /\ UNCHANGED enriched
            ELSE /\ enriched' = [i \in 1..Len(unique) |-> Enriched(unique[i], os[i])]
                 /\ pc' = "push"
                 /\ UNCHANGED error
    /\ Fetched("detail", "lightweight", curUrl)
    /\ UNCHANGED <<inputVars, mode, curUrl, queueVars, seenWebsites, totalScraped,
                   pagesProcessed, fbVars, pageBlocked, unique, admitted,
                   sink, stats, threw, blockedUrl, listingHandled, offered, noNext,
                   stepVars, otherVars>>

\* Actor.pushData(enriched | unique); totalScraped += length
H_Push ==
    /\ variant = "hybrid" /\ pc = "push"
    /\ LET batch == IF fetchFullProfiles /\ unique # <<>> THEN enriched ELSE unique IN
       /\ sink' = sink \o batch
       /\ totalScraped' = totalScraped + Len(batch)
    /\ ClearBatch
    /\ pc' = "next"
    /\ UNCHANGED <<inputVars, mode, curUrl, queueVars, seenWebsites, pagesProcessed, fbVars,
                   pageBlocked, stats, threw, lastFetch, blockedUrl,
                   listingHandled, offered, noNext, auxVars, stepVars, otherVars>>

\* H_Next without `if (!nextUrl) break`: an empty resolution leaves the loop
\* on the current page URL
H_Next_NoBreak ==
    /\ variant = "hybrid" /\ pc = "next"
    /\ IF RecordBudgetHit
       THEN /\ pc' = "stats"
            /\ nextResolved' = 0
            /\ UNCHANGED <<curUrl, noNext>>
       ELSE \E nxt \in 0..NumUrls :
            /\ nextResolved' = nxt
            /\ curUrl' = IF nxt = 0 THEN curUrl ELSE nxt
            /\ noNext' = (noNext \/ nxt = 0)
            /\ pc' = "loop"
    /\ ClearPage
    /\ UNCHANGED <<inputVars, mode, queueVars, seenWebsites, totalScraped, pagesProcessed,
                   fbVars, sink, stats, threw, lastFetch, blockedUrl,
                   listingHandled, offered, error, otherVars>>

\* H_Next with a zero-yield page treated as the end of the listing: the loop
\* is left although a next-page URL was resolved
H_Next_ZeroYieldBreaks ==
    /\ variant = "hybrid" /\ pc = "next"
    /\ IF RecordBudgetHit
       THEN /\ pc' = "stats"
            /\ nextResolved' = 0
            /\ UNCHANGED <<curUrl, noNext>>
       ELSE \E nxt \in 0..NumUrls :
            /\ nextResolved' = nxt
            /\ curUrl' = nxt
            /\ noNext' = (noNext \/ nxt = 0)
            /\ pc' = IF nxt = 0 \/ pageYield = "zero" THEN "stats" ELSE "loop"
    /\ ClearPage
    /\ UNCHANGED <<inputVars, mode, queueVars, seenWebsites, totalScraped, pagesProcessed,
                   fbVars, sink, stats, threw, lastFetch, blockedUrl,
                   listingHandled, offered, error, otherVars>>

\* record budget break, then nextUrl = findNextPageUrl(...) || ''; if (!nextUrl) break
H_Next ==
    /\ variant = "hybrid" /\ pc = "next"
    /\ IF RecordBudgetHit
       THEN /\ pc' = "stats"
            /\ nextResolved' = 0
            /\ UNCHANGED <<curUrl, noNext>>
       ELSE \E nxt \in 0..NumUrls :
            /\ nextResolved' = nxt
            /\ curUrl' = nxt
            /\ noNext' = (noNext \/ nxt = 0)
            /\ pc' = IF nxt = 0 THEN "stats" ELSE "loop"
    /\ ClearPage
    /\ UNCHANGED <<inputVars, mode, queueVars, seenWebsites, totalScraped, pagesProcessed,
                   fbVars, sink, stats, threw, lastFetch, blockedUrl,
                   listingHandled, offered, error, otherVars>>

(* ------------- hybrid: runBrowserFallback (part_001) ------------------- *)
\* the crawler takes the next request: page.goto(request.url)
FB_Fetch ==
    /\ variant = "hybrid" /\ pc = "fb_pick"
    /\ queue # <<>> /\ handled < fbMaxRequests
    /\ queue' = Tail(queue)
    /\ \E failed \in BOOLEAN :
         IF failed
         THEN \* page.goto rejects on every retry: the crawler logs the failed
              \* request, counts it as handled and goes on
              /\ FetchFailed("listing", "rendered", Head(queue))
              /\ handled' = handled + 1
              /\ UNCHANGED <<pc, curUrl>>
         ELSE /\ Fetched("listing", "rendered", Head(queue))
              /\ curUrl' = Head(queue)
              /\ pc' = "fb_extract"
              /\ UNCHANGED handled
    /\ nextResolved' = 0
    /\ UNCHANGED <<inputVars, mode, known, retryCount, seenWebsites, totalScraped,
                   pagesProcessed, fbVars, pageVars, sink, stats, threw, blockedUrl,
                   listingHandled, offered, noNext, auxVars, pageYield, snapshot, otherVars>>

\* lawyers.filter: no website -> out; seen -> out; else seen.add
RECURSIVE FallbackFilterFrom(_, _, _)
FallbackFilterFrom(ls, i, acc) ==
    IF i > Len(ls) THEN acc
    ELSE LET l == ls[i] IN
         IF l.url = <<>> \/ l.url \in acc.seen THEN FallbackFilterFrom(ls, i + 1, acc)
         ELSE FallbackFilterFrom(ls, i + 1,
                  [seen |-> acc.seen \cup {l.url}, filtered |-> Append(acc.filtered, l)])

\* filtered.slice(0, Math.max(0, maxLawyers - seen.size + filtered.length))
FallbackSlice(filtered, seen, ml) ==
    IF ml > 0
    THEN SubSeq(filtered, 1, Min(Len(filtered), Max(0, ml - Cardinality(seen) + Len(filtered))))
    ELSE filtered

\* embedded JSON first, HTML only if that returned nothing
FallbackCascade(emb, html) == IF emb # <<>> THEN emb ELSE html

FallbackInvoked(emb) == {"embedded"} \cup (IF emb = <<>> THEN {"html"} ELSE {})

\* candidate lists the cascade can yield for a rendered page
FallbackPages ==
    {FallbackCascade(emb, html) : emb \in JsonObjLists(Records), html \in HtmlLists(Records)}

FB_Extract ==
    /\ variant = "hybrid" /\ pc = "fb_extract"
    /\ \E ls \in FallbackPages :
         LET f == FallbackFilterFrom(ls, 1, [seen |-> fbSeen, filtered |-> <<>>])
         IN /\ offered' = offered \cup Keys(ls)
            /\ pageYield' = YieldOf(ls)
            /\ admitted' = NewlyAdmitted(ls, fbSeen, f.seen)
            /\ fbSeen' = f.seen
            /\ unique' = FallbackSlice(f.filtered, f.seen, fbMaxLawyers)
    /\ listingHandled' = listingHandled + 1
    /\ pc' = "fb_push"
    /\ UNCHANGED <<inputVars, mode, curUrl, queueVars, seenWebsites, totalScraped,
                   pagesProcessed, fbMaxLawyers, fbMaxRequests, pageBlocked, enriched, sink,
                   stats, threw, lastFetch, blockedUrl, noNext, auxVars, nextResolved, snapshot, otherVars>>

\* if (slice.length) await Actor.pushData(slice)
FB_Push ==
    /\ variant = "hybrid" /\ pc = "fb_push"
    /\ sink' = sink \o unique
    /\ ClearBatch
    /\ pc' = "fb_next"
    /\ UNCHANGED <<inputVars, mode, curUrl, queueVars, seenWebsites, totalScraped,
                   pagesProcessed, fbVars, pageBlocked, stats, threw, lastFetch,
                   blockedUrl, listingHandled, offered, noNext, auxVars, stepVars, otherVars>>

\* addRequests([{url, uniqueKey: url}]): a uniqueKey the queue already knows is dropped
Enqueue(q, k, url) == IF url \in k THEN q ELSE Append(q, url)

\* record budget return, then findNextPageUrl and addRequests; the request is handled
FB_Next ==
    /\ variant = "hybrid" /\ pc = "fb_next"
    /\ IF fbMaxLawyers > 0 /\ Cardinality(fbSeen) >= fbMaxLawyers
       THEN nextResolved' = 0 /\ UNCHANGED <<queue, known, noNext>>
       ELSE \E nxt \in 0..NumUrls :
            /\ nextResolved' = nxt
            /\ noNext' = (noNext \/ nxt = 0)
            /\ IF nxt # 0
               THEN queue' = Enqueue(queue, known, nxt) /\ known' = known \cup {nxt}
               ELSE UNCHANGED <<queue, known>>
    /\ handled' = handled + 1
    /\ pc' = "fb_pick"
    /\ ClearPage
    /\ UNCHANGED <<inputVars, mode, curUrl, retryCount, seenWebsites, totalScraped,
                   pagesProcessed, fbVars, sink, stats, threw, lastFetch,
                   blockedUrl, listingHandled, offered, error, otherVars>>

\* crawler.run resolves: queue drained or maxRequestsPerCrawl reached; then `break`
FB_End ==
    /\ variant = "hybrid" /\ pc = "fb_pick"
    /\ (queue = <<>> \/ handled >= fbMaxRequests)
    /\ pc' = "stats"
    /\ UNCHANGED <<inputVars, mode, curUrl, queueVars, seenWebsites, totalScraped,
                   pagesProcessed, fbVars, pageVars, sink, stats, threw,
                   lastFetch, blockedUrl, listingHandled, offered, noNext, auxVars, stepVars, otherVars>>

(* ----------------------------- run end --------------------------------- *)
\* Actor.setValue('statistics' | 'SCRAPER_STATISTICS', stats)
Finish ==
    /\ pc = "stats"
    /\ stats' = [written |-> TRUE, totalLawyersScraped |-> totalScraped,
                 pagesProcessed |-> pagesProcessed]
    /\ pc' = "done"
    /\ UNCHANGED <<inputVars, mode, curUrl, queueVars, seenWebsites, totalScraped,
                   pagesProcessed, fbVars, pageVars, sink, threw, lastFetch,
                   blockedUrl, listingHandled, offered, noNext, auxVars, stepVars, otherVars>>


(* --------------- cheerio: CheerioCrawler (main.js 1-848) --------------- *)
\* maxRequestsPerCrawl: maxPages > 0 ? maxPages : undefined
CrawlLimitHit == maxPages > 0 /\ handled >= maxPages

\* C_Fetch if a blocked response past the retry limit failed the request
\* instead of going on to extraction
C_Fetch_BlockedFails ==
    /\ variant = "cheerio" /\ pc = "c_pick"
    /\ queue # <<>> /\ ~CrawlLimitHit
    /\ \E outcome \in FetchOutcomes :
         IF outcome = "error"
         THEN /\ FetchFailed("listing", "lightweight", Head(queue))
              /\ queue' = Tail(queue)
              /\ handled' = handled + 1
              /\ retryCount' = 0
              /\ UNCHANGED <<pc, curUrl, pageBlocked, threw, blockedUrl>>
         ELSE LET blocked == outcome = "blocked" IN
              /\ Fetched("listing", "lightweight", Head(queue))
              /\ blockedUrl' = IF blocked /\ blockedUrl = 0 THEN Head(queue) ELSE blockedUrl
              /\ IF blocked /\ retryCount < BlockedRetryLimit
                 THEN /\ threw' = TRUE
                      /\ retryCount' = retryCount + 1
                      /\ UNCHANGED <<pc, queue, curUrl, pageBlocked, handled>>
                 ELSE IF blocked
                 THEN /\ threw' = TRUE
                      /\ queue' = Tail(queue)
                      /\ handled' = handled + 1
                      /\ retryCount' = 0
                      /\ UNCHANGED <<pc, curUrl, pageBlocked>>
                 ELSE /\ pc' = "c_extract"
                      /\ curUrl' = Head(queue)
                      /\ queue' = Tail(queue)
                      /\ pageBlocked' = blocked
                      /\ UNCHANGED <<threw, retryCount, handled>>
    /\ nextResolved' = 0
    /\ UNCHANGED <<inputVars, mode, known, seenWebsites, totalScraped,
                   pagesProcessed, fbVars, unique, enriched, admitted, sink,
                   stats, listingHandled, offered, noNext, auxVars, pageYield, snapshot, otherVars>>

\* the crawler fetches the head request and calls requestHandler, which
\* classifies the response; blocked with retryCount < 2 throws and the
\* request is retried
C_Fetch ==
    /\ variant = "cheerio" /\ pc = "c_pick"
    /\ queue # <<>> /\ ~CrawlLimitHit
    /\ \E outcome \in FetchOutcomes :
         IF outcome = "error"
         THEN \* the request fails on every retry: failedRequestHandler logs
              \* it, the request counts as handled, the crawler goes on
              /\ FetchFailed("listing", "lightweight", Head(queue))
              /\ queue' = Tail(queue)
              /\ handled' = handled + 1
              /\ retryCount' = 0
              /\ UNCHANGED <<pc, curUrl, pageBlocked, threw, blockedUrl>>
         ELSE LET blocked == outcome = "blocked" IN
              /\ Fetched("listing", "lightweight", Head(queue))
              /\ blockedUrl' = IF blocked /\ blockedUrl = 0 THEN Head(queue) ELSE blockedUrl
              /\ UNCHANGED handled
              /\ IF blocked /\ retryCount < BlockedRetryLimit
                 THEN /\ threw' = TRUE
                      /\ retryCount' = retryCount + 1
                      /\ UNCHANGED <<pc, queue, curUrl, pageBlocked>>
                 ELSE /\ pc' = "c_extract"
                      /\ curUrl' = Head(queue)
                      /\ queue' = Tail(queue)
                      /\ pageBlocked' = blocked
                      /\ UNCHANGED <<threw, retryCount>>
    /\ nextResolved' = 0
    /\ UNCHANGED <<inputVars, mode, known, seenWebsites, totalScraped,
                   pagesProcessed, fbVars, unique, enriched, admitted, sink,
                   stats, listingHandled, offered, noNext, auxVars, pageYield, snapshot, otherVars>>

\* for (const lawyer of lawyers) { seen -> continue; budget -> break; add; push; count }
RECURSIVE CheerioDedupFrom(_, _, _, _)
CheerioDedupFrom(ls, i, acc, ml) ==
    IF i > Len(ls) THEN acc
    ELSE LET key == DedupKey(ls[i]) IN
         IF key \in acc.seen THEN CheerioDedupFrom(ls, i + 1, acc, ml)
         ELSE IF ml > 0 /\ acc.total >= ml THEN acc
         ELSE CheerioDedupFrom(ls, i + 1,
                  [seen |-> acc.seen \cup {key}, unique |-> Append(acc.unique, ls[i]),
                   total |-> acc.total + 1], ml)

CheerioDedup(ls, seen, ml, total) ==
    CheerioDedupFrom(ls, 1, [seen |-> seen, unique |-> <<>>, total |-> total], ml)

\* lawyers.push(...jsonLdLawyers); lawyers.push(...nextDataLawyers); lawyers.push(...htmlLawyers)
CheerioCollect(ld, nd, html) == ld \o nd \o html

\* what the three extractors can return for one page: <<jsonld, next-data, html>>
CheerioOutputs(U) ==
    {t \in JsonLdLists(U) \X ApiPayloadLists(U) \X HtmlLists(U) :
        Len(t[1]) + Len(t[2]) + Len(t[3]) <= MaxCand}

\* candidate lists the handler can collect for a page
CheerioPages == {CheerioCollect(t[1], t[2], t[3]) : t \in CheerioOutputs(Records)}

\* the three extractors, then the dedup loop; extractLawyersFromJsonLdHtml
\* raises a TypeError on a JSON-LD document it cannot walk: the handler
\* throws on every retry, failedRequestHandler logs the request, which
\* counts as handled
C_Extract ==
    /\ variant = "cheerio" /\ pc = "c_extract"
    /\ \/ /\ threw' = TRUE
          /\ handled' = handled + 1
          /\ retryCount' = 0
          /\ pageBlocked' = FALSE
          /\ pc' = "c_pick"
          /\ UNCHANGED <<offered, unique, seenWebsites, totalScraped, pageYield, admitted>>
       \/ /\ \E ls \in CheerioPages :
               LET d == CheerioDedup(ls, seenWebsites, maxLawyers, totalScraped)
               IN /\ offered' = offered \cup Keys(ls)
                  /\ pageYield' = YieldOf(ls)
                  /\ admitted' = NewlyAdmitted(ls, seenWebsites, d.seen)
                  /\ unique' = d.unique
                  /\ seenWebsites' = d.seen
                  /\ totalScraped' = d.total
                  /\ pc' = "c_push"
          /\ UNCHANGED <<threw, handled, retryCount, pageBlocked>>
    /\ listingHandled' = listingHandled + 1
    /\ UNCHANGED <<inputVars, mode, curUrl, queue, known, pagesProcessed, fbVars,
                   enriched, sink, stats, lastFetch, blockedUrl, noNext,
                   auxVars, nextResolved, snapshot, otherVars>>

\* base record -> record pushed: no website keeps the base record
CheerioEnriched(base, o) == IF base.url = <<>> THEN base ELSE Enriched(base, o)

\* if (fetchFullProfiles) { for (const lawyer of unique) enriched.push(...);
\* Actor.pushData(enriched) } else Actor.pushData(unique); pagesProcessed++
C_Push ==
    /\ variant = "cheerio" /\ pc = "c_push"
    /\ IF fetchFullProfiles /\ unique # <<>>
       THEN /\ \E os \in [1..Len(unique) -> DetailOutcomes] :
                 /\ sink' = sink \o [i \in 1..Len(unique) |->
                                        CheerioEnriched(unique[i], os[i])]
                 /\ detailKept' = {i \in Kept(os) : unique[i].url # <<>>}
            /\ IF \E i \in 1..Len(unique) : unique[i].url # <<>>
               THEN Fetched("detail", "lightweight", curUrl)
               ELSE NoFetchNow
       ELSE /\ sink' = sink \o unique
            /\ NoFetchNow
            /\ UNCHANGED detailKept
    /\ pagesProcessed' = pagesProcessed + 1
    \* if (debug || lawyers.length === 0) Actor.setValue(`DEBUG_PAGE_...`)
    /\ snapshot' = (Debug \/ pageYield = "zero")
    /\ ClearBatch
    /\ pc' = "c_next"
    /\ UNCHANGED <<inputVars, mode, curUrl, queueVars, seenWebsites, totalScraped, fbVars,
                   pageBlocked, stats, threw, blockedUrl,
                   listingHandled, offered, noNext, error, pageYield, nextResolved,
                   otherVars>>

\* budget returns, then findNextPageUrl and addRequests; the request is handled
C_Next ==
    /\ variant = "cheerio" /\ pc = "c_next"
    /\ IF RecordBudgetHit \/ PageBudgetHit
       THEN nextResolved' = 0 /\ UNCHANGED <<queue, known, noNext>>
       ELSE \E nxt \in 0..NumUrls :
            /\ nextResolved' = nxt
            /\ noNext' = (noNext \/ nxt = 0)
            /\ IF nxt # 0 /\ nxt # curUrl
               THEN queue' = Enqueue(queue, known, nxt) /\ known' = known \cup {nxt}
               ELSE UNCHANGED <<queue, known>>
    /\ handled' = handled + 1
    /\ retryCount' = 0
    /\ pc' = "c_pick"
    /\ ClearPage
    /\ UNCHANGED <<inputVars, mode, curUrl, seenWebsites, totalScraped, pagesProcessed,
                   fbVars, sink, stats, threw, lastFetch, blockedUrl,
                   listingHandled, offered, error, otherVars>>

\* crawler.run resolves: queue drained or maxRequestsPerCrawl reached
C_End ==
    /\ variant = "cheerio" /\ pc = "c_pick"
    /\ (queue = <<>> \/ CrawlLimitHit)
    /\ pc' = "stats"
    /\ UNCHANGED <<inputVars, mode, curUrl, queueVars, seenWebsites, totalScraped,
                   pagesProcessed, fbVars, pageVars, sink, stats, threw,
                   lastFetch, blockedUrl, listingHandled, offered, noNext, auxVars, stepVars, otherVars>>

(* -------------------------- specification ------------------------------ *)
Next ==
    \/ H_Fetch \/ H_Break \/ H_Extract \/ H_Enrich \/ H_Push \/ H_Next
    \/ FB_Fetch \/ FB_Extract \/ FB_Push \/ FB_Next \/ FB_End
    \/ C_Fetch \/ C_Extract \/ C_Push \/ C_Next \/ C_End
    \/ Finish

Spec == Init /\ [][Next]_vars

\* the same run, started from every setting of fetchFullProfiles and debug
SpecOptions == InitOptions /\ [][Next]_vars

TypeOK ==
    /\ pc \in {"input", "loop", "extract", "enrich", "push", "next", "fb_pick", "fb_extract",
               "fb_push", "fb_next", "c_pick", "c_extract", "c_push",
               "c_next", "stats", "done", "aborted"}
    /\ error \in {"none", "detail-fetch", "listing-fetch", "api-fetch", "invalid-input"}
    /\ mode \in {"lightweight", "rendered"}
    /\ curUrl \in 0..NumUrls
    /\ totalScraped \in Nat /\ pagesProcessed \in Nat
    /\ pageYield \in {"none", "zero", "some"}
    /\ nextResolved \in 0..NumUrls
    /\ snapshot \in BOOLEAN


(* ------------------- enrichment merge of one field --------------------- *)
\* Field values are tokens: "" empty string, "null" null/undefined, "[]" empty
\* array, "b" a value of the base record, "d" a value found by the detail
\* page selectors, "l" a value of the detail page's JSON-LD entity.
Truthy(v) == v \notin {"", "null"}
IsEmpty(v) == v \in {"", "null", "[]"}
\* a || b
JsOr(a, b) == IF Truthy(a) THEN a ELSE b
\* a ?? b
JsNullish(a, b) == IF a = "null" THEN b ELSE a

StringFields == {"email", "phone", "firmName", "address", "location", "practiceAreas",
                 "description", "yearsLicensed"}
ListFields == {"education", "barAdmissions", "languages"}
CheerioFields == StringFields \cup ListFields \cup {"biography"}
HybridFields == {"email", "biography", "education", "barAdmissions", "languages"}

MergeFields(v) == IF v = "cheerio" THEN CheerioFields ELSE HybridFields

\* values a listing extractor leaves in the base record
BaseVals(f) == IF f \in StringFields THEN {"", "b"} ELSE {"null", "b"}

\* what the selectors of the detail page produce for the field
DetailVals(v, f) ==
    IF v = "hybrid" THEN {"null", "d"}
    ELSE IF f \in ListFields THEN {"[]", "d"}
    ELSE IF f \in {"biography", "description"} THEN {"null", "d"}
    ELSE {"", "d"}

\* ld?.field where ld = extractLawyersFromJsonLdHtml(detail page)[0]
LdVals(v, f) ==
    IF v = "hybrid" THEN {"null"}
    ELSE IF f \in StringFields THEN {"null", "", "l"}
    ELSE IF f = "languages" THEN {"null", "[]", "l"}
    ELSE {"null"}

\* the return value of enrichProfileWithDetailsHttp for one field
MergeCheerio(f, b, d, l) ==
    CASE f = "email" -> JsOr(JsOr(JsOr(JsOr(d, "null"), l), b), b)
      [] f \in {"phone", "firmName", "address", "location"} -> JsOr(JsOr(JsOr(d, b), l), b)
      [] f = "practiceAreas" -> JsOr(JsOr(d, l), b)
      [] f = "description" -> JsOr(JsOr(JsOr(d, l), b), b)
      [] f = "yearsLicensed" -> IF d # "" THEN d ELSE b
      [] f = "biography" -> JsOr(JsOr(d, l), b)
      [] f \in ListFields -> IF d # "[]" THEN d ELSE JsOr(l, b)

\* details?.field ?? base.field
MergeHybrid(f, b, d) == JsNullish(d, b)

MergeField(v, f, o, b, d, l) ==
    IF v = "cheerio"
    THEN IF o = "ok" THEN MergeCheerio(f, b, d, l) ELSE b
    ELSE IF o = "blocked" THEN b ELSE MergeHybrid(f, b, d)

CrawlIdle ==
    /\ input = NoInput
    /\ variant = "none" /\ maxLawyers = 0 /\ maxPages = 0 /\ fetchFullProfiles = TRUE
    /\ pc = "idle" /\ mode = "lightweight" /\ curUrl = 0
    /\ queue = <<>> /\ known = {} /\ handled = 0 /\ retryCount = 0
    /\ seenWebsites = {} /\ totalScraped = 0 /\ pagesProcessed = 0
    /\ fbSeen = {} /\ fbMaxLawyers = 0 /\ fbMaxRequests = 0
    /\ pageBlocked = FALSE /\ unique = <<>> /\ enriched = <<>> /\ admitted = <<>>
    /\ sink = <<>> /\ stats = [written |-> FALSE, totalLawyersScraped |-> 0, pagesProcessed |-> 0]
    /\ threw = FALSE /\ lastFetch = NoFetch /\ blockedUrl = 0
    /\ listingHandled = 0 /\ offered = {} /\ noNext = FALSE
    /\ error = "none" /\ detailKept = {}
    /\ pageYield = "none" /\ nextResolved = 0 /\ snapshot = FALSE

InitMerge ==
    /\ CrawlIdle
    /\ OnePageIdle
    /\ ExtractIdle
    /\ ClassifyIdle
    /\ HandlersIdle
    /\ WalkIdle
    /\ CycleIdle
    /\ mpc = "start"
    /\ mVariant \in {"cheerio", "hybrid"}
    /\ mField \in MergeFields(mVariant)
    /\ mBase \in BaseVals(mField)
    /\ mDetail = "null" /\ mLd = "null" /\ mOutcome = "none" /\ mMerged = "null"

\* the detail page is fetched and its selectors and JSON-LD are evaluated
M_FetchDetail ==
    /\ mpc = "start"
    /\ \E o \in DetailOutcomes :
         /\ mOutcome' = o
         /\ IF o = "ok"
            THEN /\ mDetail' \in DetailVals(mVariant, mField)
                 /\ mLd' \in LdVals(mVariant, mField)
            ELSE /\ mDetail' = "null"
                 /\ mLd' = "null"
    /\ mpc' = "fetched"
    /\ UNCHANGED <<crawlVars, cycleVars, walkVars, handlerVars, classifyVars, extractVars, onePageVars, mVariant, mField, mBase, mMerged>>

\* the merged record is built
M_Merge ==
    /\ mpc = "fetched"
    /\ mMerged' = MergeField(mVariant, mField, mOutcome, mBase, mDetail, mLd)
    /\ mpc' = "merged"
    /\ UNCHANGED <<crawlVars, cycleVars, walkVars, handlerVars, classifyVars, extractVars, onePageVars, mVariant, mField, mBase, mDetail, mLd, mOutcome>>

NextMerge == M_FetchDetail \/ M_Merge

SpecMerge == InitMerge /\ [][NextMerge]_vars


(* ------------- extraction and dedup of one listing page ---------------- *)
\* The page handlers' extraction and dedup steps, applied to every extractor
\* output and every ledger the run can have when a page is handled:
\* "hybrid" the HTTP loop and "fallback" runBrowserFallback of part_001,
\* "cheerio" the request handler of main.js.
AllKeys == {DedupKey(r) : r \in PageRecords}
UrlKeys == {r.url : r \in {x \in PageRecords : x.url # <<>>}}

\* the ledger holds websites only where records without website are skipped
LedgerKeys(v) == IF v = "cheerio" THEN AllKeys ELSE UrlKeys

InitPage ==
    /\ CrawlIdle
    /\ MergeIdle
    /\ ExtractIdle
    /\ ClassifyIdle
    /\ HandlersIdle
    /\ WalkIdle
    /\ CycleIdle
    /\ ppc = "start"
    /\ pVariant \in {"hybrid", "fallback", "cheerio"}
    /\ pMaxLawyers \in 0..MaxLawyersIn
    /\ pSeen \in SUBSET LedgerKeys(pVariant)
    \* a page is only handled while the record budget is not used up
    /\ pMaxLawyers > 0 => Cardinality(pSeen) < pMaxLawyers
    /\ pTotal = Cardinality(pSeen)
    /\ invoked = {} /\ outs = NoOuts /\ lawyers = <<>> /\ pUnique = <<>> /\ pSeenOut = {}

\* the extractors run in the handler's order and the candidates are collected
P_Extract ==
    /\ ppc = "start"
    /\ \/ /\ pVariant = "hybrid"
          /\ \E api \in JsonObjLists(PageRecords) :
             \E emb \in (IF api = <<>> THEN JsonObjLists(PageRecords) ELSE {<<>>}) :
             \E html \in (IF api = <<>> /\ emb = <<>> THEN HtmlLists(PageRecords)
                           ELSE {<<>>}) :
               /\ invoked' = HybridInvoked(api, emb)
               /\ outs' = [NoOuts EXCEPT !["api"] = api, !["embedded"] = emb,
                                         !["html"] = html]
               /\ lawyers' = HybridCascade(api, emb, html)
       \/ /\ pVariant = "fallback"
          /\ \E emb \in JsonObjLists(PageRecords) :
             \E html \in (IF emb = <<>> THEN HtmlLists(PageRecords) ELSE {<<>>}) :
               /\ invoked' = FallbackInvoked(emb)
               /\ outs' = [NoOuts EXCEPT !["embedded"] = emb, !["html"] = html]
               /\ lawyers' = FallbackCascade(emb, html)
       \/ /\ pVariant = "cheerio"
          /\ \E t \in CheerioOutputs(PageRecords) :
               /\ invoked' = {"jsonld", "next-data", "html"}
               /\ outs' = [NoOuts EXCEPT !["jsonld"] = t[1], !["next-data"] = t[2],
                                         !["html"] = t[3]]
               /\ lawyers' = CheerioCollect(t[1], t[2], t[3])
    /\ ppc' = "extracted"
    /\ UNCHANGED <<crawlVars, cycleVars, walkVars, handlerVars, classifyVars, extractVars, mergeVars, pVariant, pMaxLawyers, pSeen, pTotal, pUnique,
                   pSeenOut>>

\* the dedup loop admits candidates to the ledger
P_Dedup ==
    /\ ppc = "extracted"
    /\ \/ /\ pVariant = "hybrid"
          /\ LET d == HybridDedup(lawyers, pSeen, pMaxLawyers, pTotal)
             IN pUnique' = d.unique /\ pSeenOut' = d.seen
       \/ /\ pVariant = "fallback"
          /\ LET f == FallbackFilterFrom(lawyers, 1, [seen |-> pSeen, filtered |-> <<>>])
             IN /\ pUnique' = FallbackSlice(f.filtered, f.seen, pMaxLawyers)
                /\ pSeenOut' = f.seen
       \/ /\ pVariant = "cheerio"
          /\ LET d == CheerioDedup(lawyers, pSeen, pMaxLawyers, pTotal)
             IN pUnique' = d.unique /\ pSeenOut' = d.seen
    /\ ppc' = "deduped"
    /\ UNCHANGED <<crawlVars, cycleVars, walkVars, handlerVars, classifyVars, extractVars, mergeVars, pVariant, pMaxLawyers, pSeen, pTotal, invoked,
                   outs, lawyers>>

NextPage == P_Extract \/ P_Dedup

SpecPage == InitPage /\ [][NextPage]_vars


(* ------------------------ input to start URL --------------------------- *)
\* Characters of an input string: a lower-case letter, an upper-case letter,
\* white space, a hyphen, any other symbol.
Chars == {"a", "A", " ", "-", "!"}
UrlChars == {" ", "u"}

RECURSIVE TrimLeft(_)
TrimLeft(t) == IF t # <<>> /\ Head(t) = " " THEN TrimLeft(Tail(t)) ELSE t

RECURSIVE TrimRight(_)
TrimRight(t) ==
    IF t # <<>> /\ t[Len(t)] = " " THEN TrimRight(SubSeq(t, 1, Len(t) - 1)) ELSE t

\* String.prototype.trim
Trim(t) == TrimRight(TrimLeft(t))

\* String.prototype.toLowerCase
ToLowerCase(t) == [i \in 1..Len(t) |-> IF t[i] = "A" THEN "a" ELSE t[i]]

\* replace(/c+/g, d): every run of c becomes one d
RECURSIVE ReplaceRuns(_, _, _)
ReplaceRuns(t, c, d) ==
    IF t = <<>> THEN <<>>
    ELSE IF Head(t) = c
         THEN IF Len(t) > 1 /\ t[2] = c THEN ReplaceRuns(Tail(t), c, d)
              ELSE <<d>> \o ReplaceRuns(Tail(t), c, d)
         ELSE <<Head(t)>> \o ReplaceRuns(Tail(t), c, d)

IsSlugChar(c) == c \in {"a", "-"}

\* replace(/^-|-$/g, '')
StripEdgeHyphens(t) ==
    LET l == IF t # <<>> /\ Head(t) = "-" THEN Tail(t) ELSE t
    IN IF l # <<>> /\ l[Len(l)] = "-" THEN SubSeq(l, 1, Len(l) - 1) ELSE l

\* toSlug without replace(/[^a-z0-9-]/g, '')
ToSlug_KeepsSymbols(f) ==
    StripEdgeHyphens(ReplaceRuns(
        ReplaceRuns(ToLowerCase(Trim(f.text)), " ", "-"), "-", "-"))

\* (value || '').toString().trim().toLowerCase().replace(/\s+/g, '-')
\*     .replace(/[^a-z0-9-]/g, '').replace(/-+/g, '-').replace(/^-|-$/g, '')
ToSlug(f) ==
    StripEdgeHyphens(ReplaceRuns(
        SelectSeq(ReplaceRuns(ToLowerCase(Trim(f.text)), " ", "-"), IsSlugChar),
        "-", "-"))

\* input.searchUrl && input.searchUrl.trim()
SearchUrlGiven(in) == in.searchUrl.present /\ Trim(in.searchUrl.text) # <<>>

\* the IIFE that computes searchUrl throws
InvalidInput(in) ==
    /\ ~SearchUrlGiven(in)
    /\ (ToSlug(in.practiceArea) = <<>> \/ ToSlug(in.location) = <<>>)

StringInputs(C, n) == {Absent} \cup {Str(t) : t \in SeqsUpTo(C, n)}

\* the run has read its input and set its budgets to the defaults
InitInput ==
    /\ variant \in {"hybrid", "cheerio"}
    /\ input \in {[NoInput EXCEPT !.searchUrl = u, !.practiceArea = a, !.location = l] :
                     u \in StringInputs(UrlChars, 1), a \in StringInputs(Chars, MaxSlugLen),
                     l \in StringInputs(Chars, MaxSlugLen)}
    /\ maxLawyers = 50 /\ maxPages = 5
    /\ fetchFullProfiles = (variant = "cheerio")
    /\ pc = "input"
    /\ mode = "lightweight" /\ curUrl = 0
    /\ queue = <<>> /\ known = {} /\ handled = 0 /\ retryCount = 0
    /\ seenWebsites = {} /\ totalScraped = 0 /\ pagesProcessed = 0
    /\ fbSeen = {} /\ fbMaxLawyers = 0 /\ fbMaxRequests = 0
    /\ pageBlocked = FALSE /\ unique = <<>> /\ enriched = <<>> /\ admitted = <<>>
    /\ sink = <<>> /\ stats = [written |-> FALSE, totalLawyersScraped |-> 0, pagesProcessed |-> 0]
    /\ threw = FALSE /\ lastFetch = NoFetch /\ blockedUrl = 0
    /\ listingHandled = 0 /\ offered = {} /\ noNext = FALSE
    /\ error = "none" /\ detailKept = {}
    /\ pageYield = "none" /\ nextResolved = 0 /\ snapshot = FALSE
    /\ OnePageIdle
    /\ MergeIdle
    /\ ExtractIdle
    /\ ClassifyIdle
    /\ HandlersIdle
    /\ WalkIdle
    /\ CycleIdle

\* const searchUrl = (() => {...})(): the start URL, or the throw that the
\* run-level catch rethrows
R_SearchUrl ==
    /\ pc = "input"
    /\ IF InvalidInput(input)
       THEN /\ error' = "invalid-input"
            /\ pc' = "aborted"
            /\ UNCHANGED <<curUrl, queue, known>>
       ELSE /\ pc' = (IF variant = "hybrid" THEN "loop" ELSE "c_pick")
            /\ curUrl' = (IF variant = "hybrid" THEN 1 ELSE 0)
            /\ queue' = (IF variant = "hybrid" THEN <<>> ELSE <<1>>)
            /\ known' = (IF variant = "hybrid" THEN {} ELSE {1})
            /\ UNCHANGED error
    /\ UNCHANGED <<inputVars, mode, handled, retryCount, seenWebsites, totalScraped,
                   pagesProcessed, fbVars, pageVars, sink, stats, threw, lastFetch,
                   blockedUrl, listingHandled, offered, noNext, detailKept, stepVars,
                   otherVars>>

NextInput == R_SearchUrl

SpecInput == InitInput /\ [][NextInput]_vars

(* ---------------------- one extractor call ---------------------------- *)
\* A JSON document is the text of one script element or of one API response:
\* it parses or not, and parsed it is a list of elements. "null" is a null
\* element, "scalar" a number or string, "lawyer" an object with a name and a
\* string @type, "list" an ItemList holding one lawyer, "listNull" an
\* ItemList whose itemListElement holds null, "typeNum" a named object whose
\* @type is a number.
ObjItems == {"null", "scalar", "lawyer"}
LdItems == ObjItems \cup {"list", "listNull", "typeNum"}

Docs(K) == {NoDoc} \cup {[parsed |-> TRUE, items |-> q] : q \in SeqsUpTo(K, MaxItems)}

Returned(n) == [threw |-> FALSE, n |-> n]
Threw == [threw |-> TRUE, n |-> 0]

\* for (const item of items): null and non-objects are skipped; an ItemList
\* reads listItem.item of every element; type.includes(...) is called on
\* item['@type'] || ''
RECURSIVE ExtractLawyersFromJsonLdFrom(_, _, _)
ExtractLawyersFromJsonLdFrom(items, i, n) ==
    IF i > Len(items) THEN Returned(n)
    ELSE CASE items[i] \in {"null", "scalar"} -> ExtractLawyersFromJsonLdFrom(items, i + 1, n)
           [] items[i] \in {"lawyer", "list"} -> ExtractLawyersFromJsonLdFrom(items, i + 1, n + 1)
           [] items[i] \in {"listNull", "typeNum"} -> Threw

\* each script: data = safeJsonParse(text); if (data) found.push(...extract(data))
ExtractLawyersFromJsonLdHtml(doc) ==
    IF doc.parsed THEN ExtractLawyersFromJsonLdFrom(doc.items, 1, 0) ELSE Returned(0)

\* item?.name, item?.url: an element without name and URL is skipped
RECURSIVE ExtractLawyersFromJsonObject(_)
ExtractLawyersFromJsonObject(items) ==
    IF items = <<>> THEN 0
    ELSE (IF Head(items) = "lawyer" THEN 1 ELSE 0) + ExtractLawyersFromJsonObject(Tail(items))

\* safeJsonParse, then extractLawyersFromJsonObject / extractLawyersFromApiPayload
ExtractViaParsedJson(doc) ==
    Returned(IF doc.parsed THEN ExtractLawyersFromJsonObject(doc.items) ELSE 0)

\* no apiUrl -> []; r = await fetchHttp(apiUrl) with no try/catch; safeJsonParse(r.body)
ExtractListingViaJsonApi(fetch, doc) ==
    CASE fetch = "none" -> Returned(0)
      [] fetch = "rejects" -> Threw
      [] fetch = "ok" -> ExtractViaParsedJson(doc)

ExtractorCall(x, in) ==
    CASE x = "jsonld" -> ExtractLawyersFromJsonLdHtml(in.doc)
      [] x = "api" -> ExtractListingViaJsonApi(in.fetch, in.doc)
      [] x \in {"embedded", "next-data"} -> ExtractViaParsedJson(in.doc)

ExtractorInputs(x) ==
    CASE x = "jsonld" -> {[fetch |-> "none", doc |-> d] : d \in Docs(LdItems)}
      [] x = "api" -> {[fetch |-> f, doc |-> d] : f \in {"ok", "rejects"}, d \in Docs(ObjItems)}
                      \cup {[fetch |-> "none", doc |-> NoDoc]}
      [] x \in {"embedded", "next-data"} ->
             {[fetch |-> "none", doc |-> d] : d \in Docs(ObjItems)}

InitExtract ==
    /\ CrawlIdle
    /\ OnePageIdle
    /\ MergeIdle
    /\ ClassifyIdle
    /\ HandlersIdle
    /\ WalkIdle
    /\ CycleIdle
    /\ xpc = "start"
    /\ xExtractor \in {"jsonld", "api", "embedded", "next-data"}
    /\ xInput \in ExtractorInputs(xExtractor)
    /\ xResult = NoResult

\* the handler calls the extractor
X_Call ==
    /\ xpc = "start"
    /\ xResult' = ExtractorCall(xExtractor, xInput)
    /\ xpc' = "returned"
    /\ UNCHANGED <<crawlVars, cycleVars, walkVars, handlerVars, classifyVars, onePageVars, mergeVars, xExtractor, xInput>>

NextExtract == X_Call

SpecExtract == InitExtract /\ [][NextExtract]_vars

\* the input is one of the failures an extractor meets
MalformedInput ==
    \/ xInput.fetch = "rejects"
    \/ (xInput.fetch # "rejects" /\ ~xInput.doc.parsed)
    \/ \E i \in 1..Len(xInput.doc.items) :
           xInput.doc.items[i] \in {"null", "scalar", "listNull", "typeNum"}

(* ------------- classification of one listing response ------------------ *)
\* A body is cut where html.slice(0, 5000) cuts it: lead is the first 5000
\* characters, rest what follows.  Each part is a sequence of chunks: "text"
\* ordinary markup, "both" a phrase of both variants' lists ('just a
\* moment', 'cf-browser-verification'), "BOTH" the same in capitals,
\* "hybridOnly" a phrase only part_001 lists ('checking your browser',
\* 'cloudflare'), "cheerioOnly" one only main.js lists ('verify you are
\* human', 'access denied', 'security of your connection').
Chunks == {"text", "both", "BOTH", "hybridOnly", "cheerioOnly"}

\* the phrases isBlockedHtml of the variant looks for
Phrases(v) == IF v = "hybrid" THEN {"both", "hybridOnly"} ELSE {"both", "cheerioOnly"}

\* toLowerCase() of a body part
LowerChunks(t) == [i \in 1..Len(t) |-> IF t[i] = "BOTH" THEN "both" ELSE t[i]]

\* sample.includes(p) for one of the phrases
IncludesPhrase(t, v) == \E i \in 1..Len(t) : t[i] \in Phrases(v)

\* part_001: html.slice(0, 5000).toLowerCase(); main.js: html.toLowerCase()
IsBlockedHtml(v, r) ==
    IF r.lead \o r.rest = <<>> THEN FALSE
    ELSE IF v = "hybrid" THEN IncludesPhrase(LowerChunks(r.lead), v)
    ELSE IncludesPhrase(LowerChunks(r.lead \o r.rest), v)

\* part_001: isBlockedHtml(r.body) || statusCode === 403 || === 429 || === 503
\* main.js:  statusCode === 403 || isBlockedHtml(htmlSnapshot)
Blocked(v, r) ==
    IF v = "hybrid" THEN IsBlockedHtml(v, r) \/ r.status \in {403, 429, 503}
    ELSE r.status = 403 \/ IsBlockedHtml(v, r)

\* status codes with which a response reaches the classification: fetchHttp
\* returns every response; the CheerioCrawler fails a 5xx response itself and
\* never calls requestHandler with it (blockedStatusCodes is [])
Statuses(v) == IF v = "hybrid" THEN {200, 403, 404, 429, 503} ELSE {200, 403, 404, 429}

InitClassify ==
    /\ CrawlIdle
    /\ OnePageIdle
    /\ MergeIdle
    /\ ExtractIdle
    /\ HandlersIdle
    /\ WalkIdle
    /\ CycleIdle
    /\ kpc = "start"
    /\ kVariant \in {"hybrid", "cheerio"}
    /\ kResponse \in {[status |-> c, lead |-> l, rest |-> t] :
                         c \in Statuses(kVariant), l \in SeqsUpTo(Chunks, MaxChunks),
                         t \in SeqsUpTo(Chunks, MaxChunks)}
    /\ kBlocked = FALSE

\* const blocked = ...
K_Classify ==
    /\ kpc = "start"
    /\ kBlocked' = Blocked(kVariant, kResponse)
    /\ kpc' = "classified"
    /\ UNCHANGED <<crawlVars, cycleVars, walkVars, handlerVars, onePageVars, mergeVars, extractVars, kVariant, kResponse>>

NextClassify == K_Classify

SpecClassify == InitClassify /\ [][NextClassify]_vars

(* ------------- request handlers as concurrent tasks -------------------- *)
\* The crawlers run up to maxConcurrency request handlers at a time.  A
\* handler is an async function: it runs without interruption from one
\* await to the next, and other handlers run while it is suspended.  Slot
\* positions are the handler's suspension points:
\*   "handling"  the page is being fetched and extracted
\*   "deduped"   the dedup loop has run; enrichment and pushData are awaited
\*               (unique is its batch, dup the keys it found in the ledger)
\*   "pushed"    pushData has resolved; next-page resolution is to come
\*   "enqueued"  addRequests was called (or skipped); the handler returns
\* A handler runs until it returns or throws; a thrown request is retried.
\* "cheerio" is the CheerioCrawler of main.js, "browser" the PlaywrightCrawler
\* of part_002, "fallback" the PlaywrightCrawler of runBrowserFallback.
HandlerVariants == {"cheerio", "browser", "fallback"}

Slots == 1..MaxConc

\* candidates a handler collects for one page: a record with website and
\* one without, each any number of times
HandlerPages == SeqsUpTo({RA, RC}, MaxCand)

\* part_002: for (const lawyer of lawyers) { no website or seen -> continue;
\* budget -> break; add; push; totalScraped++ }
RECURSIVE BrowserDedupFrom(_, _, _, _)
BrowserDedupFrom(ls, i, acc, ml) ==
    IF i > Len(ls) THEN acc
    ELSE IF ls[i].url = <<>> \/ ls[i].url \in acc.seen THEN BrowserDedupFrom(ls, i + 1, acc, ml)
    ELSE IF ml > 0 /\ acc.total >= ml THEN acc
    ELSE BrowserDedupFrom(ls, i + 1,
             [seen |-> acc.seen \cup {ls[i].url}, unique |-> Append(acc.unique, ls[i]),
              total |-> acc.total + 1], ml)

\* HandlerDedup of a handler that keeps its ledger in a local of the handler
\* (`const seen = new Set()` inside requestHandler)
HandlerDedup_LocalLedger(v, ls, seen, ml, total) ==
    LET d == CheerioDedup(ls, {}, ml, total)
    IN [seen |-> seen \cup d.seen, total |-> d.total, admitted |-> d.unique,
        unique |-> d.unique]

\* the dedup step of a handler: the ledger and counter after it, the
\* candidates it admitted and the batch it will push
HandlerDedup(v, ls, seen, ml, total) ==
    CASE v = "cheerio" ->
             LET d == CheerioDedup(ls, seen, ml, total)
             IN [seen |-> d.seen, total |-> d.total, admitted |-> d.unique, unique |-> d.unique]
      [] v = "browser" ->
             LET d == BrowserDedupFrom(ls, 1, [seen |-> seen, unique |-> <<>>, total |-> total], ml)
             IN [seen |-> d.seen, total |-> d.total, admitted |-> d.unique, unique |-> d.unique]
      [] v = "fallback" ->
             LET f == FallbackFilterFrom(ls, 1, [seen |-> seen, filtered |-> <<>>])
             IN [seen |-> f.seen, total |-> total, admitted |-> f.filtered,
                 unique |-> FallbackSlice(f.filtered, f.seen, ml)]

KeysOf(s) == [i \in 1..Len(s) |-> DedupKey(s[i])]

\* crawler.run([searchUrl]) / crawler.run([startUrl])
InitHandlers ==
    /\ CrawlIdle
    /\ OnePageIdle
    /\ MergeIdle
    /\ ExtractIdle
    /\ ClassifyIdle
    /\ WalkIdle
    /\ CycleIdle
    /\ hVariant \in HandlerVariants
    /\ hMaxLawyers \in 0..MaxLawyersIn
    /\ \E mp \in 0..MaxPagesIn :
         hMaxRequests = IF hVariant = "fallback" THEN FallbackRequestCap(mp) ELSE mp
    /\ hQueue = <<1>> /\ hKnown = {1} /\ hHandled = 0
    /\ hSlots = [i \in Slots |-> IdleSlot]
    /\ hSeen = {} /\ hTotal = 0 /\ hPages = 0 /\ hSink = <<>>
    /\ hAdmitLog = <<>> /\ hThrows = 0

\* maxRequestsPerCrawl reached
HandlerLimitHit == hMaxRequests > 0 /\ hHandled >= hMaxRequests

\* the crawler gives the next request of the queue to a free slot (the
\* slots are alike: the first free one)
S_Start(i) ==
    /\ hSlots[i].pos = "idle"
    /\ \A j \in 1..(i - 1) : hSlots[j].pos # "idle"
    /\ hQueue # <<>> /\ ~HandlerLimitHit
    /\ hSlots' = [hSlots EXCEPT ![i] = [IdleSlot EXCEPT !.pos = "handling", !.url = Head(hQueue)]]
    /\ hQueue' = Tail(hQueue)
    /\ UNCHANGED <<hVariant, hMaxLawyers, hMaxRequests, hKnown, hHandled, hSeen, hTotal,
                   hPages, hSink, hAdmitLog, hThrows>>

\* S_Dedup of a handler that calls addRequests for the next page as soon as
\* the page is extracted, before enrichment and pushData
S_Dedup_EnqueuesEarly(i) ==
    /\ hSlots[i].pos = "handling"
    /\ \E ls \in HandlerPages :
         LET d == HandlerDedup(hVariant, ls, hSeen, hMaxLawyers, hTotal)
         IN /\ hSeen' = d.seen
            /\ hTotal' = d.total
            /\ hAdmitLog' = hAdmitLog \o KeysOf(d.admitted)
            /\ hSlots' = [hSlots EXCEPT ![i] = [@ EXCEPT !.pos = "deduped",
                                                        !.unique = d.unique,
                                                        !.dup = Keys(ls) \cap hSeen]]
    /\ \E nxt \in 0..NumUrls :
         IF nxt # 0 /\ nxt # hSlots[i].url
         THEN hQueue' = Enqueue(hQueue, hKnown, nxt) /\ hKnown' = hKnown \cup {nxt}
         ELSE UNCHANGED <<hQueue, hKnown>>
    /\ UNCHANGED <<hVariant, hMaxLawyers, hMaxRequests, hHandled, hPages, hSink, hThrows>>

\* the extractors have returned; the dedup loop runs from its first to its
\* last candidate with no await in it
S_Dedup(i) ==
    /\ hSlots[i].pos = "handling"
    /\ \E ls \in HandlerPages :
         LET d == HandlerDedup(hVariant, ls, hSeen, hMaxLawyers, hTotal)
         IN /\ hSeen' = d.seen
            /\ hTotal' = d.total
            /\ hAdmitLog' = hAdmitLog \o KeysOf(d.admitted)
            /\ hSlots' = [hSlots EXCEPT ![i] = [@ EXCEPT !.pos = "deduped",
                                                        !.unique = d.unique,
                                                        !.dup = Keys(ls) \cap hSeen]]
    /\ UNCHANGED <<hVariant, hMaxLawyers, hMaxRequests, hQueue, hKnown, hHandled, hPages,
                   hSink, hThrows>>

\* enrichment, if any, then await Actor.pushData(...); pagesProcessed++
S_Push(i) ==
    /\ hSlots[i].pos = "deduped"
    /\ hSink' = hSink \o hSlots[i].unique
    /\ hPages' = IF hVariant = "fallback" THEN hPages ELSE hPages + 1
    /\ hSlots' = [hSlots EXCEPT ![i] = [@ EXCEPT !.pos = "pushed"]]
    /\ UNCHANGED <<hVariant, hMaxLawyers, hMaxRequests, hQueue, hKnown, hHandled, hSeen,
                   hTotal, hAdmitLog, hThrows>>

\* the budget returns of the handler
HandlerBudgetHit ==
    IF hVariant = "fallback"
    THEN hMaxLawyers > 0 /\ Cardinality(hSeen) >= hMaxLawyers
    ELSE \/ (hMaxLawyers > 0 /\ hTotal >= hMaxLawyers)
         \/ (hMaxRequests > 0 /\ hPages >= hMaxRequests)

\* budget returns; findNextPageUrl; await selfCrawler.addRequests([...])
S_Next(i) ==
    /\ hSlots[i].pos = "pushed"
    /\ IF HandlerBudgetHit
       THEN UNCHANGED <<hQueue, hKnown>>
       ELSE \E nxt \in 0..NumUrls :
            IF nxt # 0 /\ (hVariant = "fallback" \/ nxt # hSlots[i].url)
            THEN hQueue' = Enqueue(hQueue, hKnown, nxt) /\ hKnown' = hKnown \cup {nxt}
            ELSE UNCHANGED <<hQueue, hKnown>>
    /\ hSlots' = [hSlots EXCEPT ![i] = [@ EXCEPT !.pos = "enqueued"]]
    /\ UNCHANGED <<hVariant, hMaxLawyers, hMaxRequests, hHandled, hSeen, hTotal, hPages,
                   hSink, hAdmitLog, hThrows>>

\* the handler returns and the crawler marks the request handled
S_Return(i) ==
    /\ hSlots[i].pos = "enqueued"
    /\ hSlots' = [hSlots EXCEPT ![i] = IdleSlot]
    /\ hHandled' = hHandled + 1
    /\ UNCHANGED <<hVariant, hMaxLawyers, hMaxRequests, hQueue, hKnown, hSeen, hTotal,
                   hPages, hSink, hAdmitLog, hThrows>>

\* the handler throws at an await (the blocked throw or a failed page.goto
\* while handling, a rejected pushData after the dedup loop): the handler is
\* over and the crawler puts the request back for a retry
S_Throw(i) ==
    /\ hSlots[i].pos \in {"handling", "deduped"}
    /\ hThrows < MaxThrows
    /\ hThrows' = hThrows + 1
    /\ hQueue' = Append(hQueue, hSlots[i].url)
    /\ hSlots' = [hSlots EXCEPT ![i] = IdleSlot]
    /\ UNCHANGED <<hVariant, hMaxLawyers, hMaxRequests, hKnown, hHandled, hSeen, hTotal,
                   hPages, hSink, hAdmitLog>>

NextHandlers ==
    \E i \in Slots :
        /\ (S_Start(i) \/ S_Dedup(i) \/ S_Push(i) \/ S_Next(i) \/ S_Return(i) \/ S_Throw(i))
        /\ UNCHANGED <<crawlVars, cycleVars, walkVars, onePageVars, mergeVars, extractVars, classifyVars>>

SpecHandlers == InitHandlers /\ [][NextHandlers]_vars

(* ---------------- the generic walk over a JSON value ------------------- *)
\* The value handed to the walk is a set of containers (objects and arrays),
\* container 1 the root; wChildren gives the containers each one holds as
\* values.  A container may hold itself or one that holds it: the walk takes
\* any JavaScript value, whatever built it.  wItem is what every container
\* offers to the candidate test: in part_001 and part_002 the element of its
\* `lawyers` array, in main.js the container's own fields.
\* "stack" is extractLawyersFromJsonObject (part_001 73-142, part_002
\* 127-195), "recursive" extractLawyersFromApiPayload (main.js 76-179).
Nodes == 1..MaxNodes

WalkVariants == {"stack", "recursive"}

\* names: none, one character, two characters; URLs: none, one that new URL
\* rejects, one it resolves
ItemNames == {"", "x", "al"}
ItemUrls == {"", "bad", "ok"}

NameLength(n) == CASE n = "" -> 0 [] n = "x" -> 1 [] n = "al" -> 2

\* if (!maybeRelativeUrl) return ''; try { new URL(...).toString() } catch { return '' }
AbsoluteUrl(u) == IF u = "ok" THEN "abs" ELSE ""

\* part_001: if (!name && !absoluteProfileUrl) continue;
\*           results.push({ name: name || 'Unknown Name', ..., website })
\* main.js:  if (!name || name.length < 2) return; ... results.push({ name, ..., website })
WalkCandidate(v, item) ==
    IF v = "stack"
    THEN IF item.name = "" /\ AbsoluteUrl(item.url) = "" THEN <<>>
         ELSE <<[name |-> IF item.name = "" THEN "Unknown Name" ELSE item.name,
                 website |-> AbsoluteUrl(item.url)]>>
    ELSE IF item.name = "" \/ NameLength(item.name) < 2 THEN <<>>
         ELSE <<[name |-> item.name, website |-> AbsoluteUrl(item.url)]>>

\* the values of a container, in key order
RECURSIVE ValuesOf(_)
ValuesOf(S) ==
    IF S = {} THEN <<>>
    ELSE LET n == CHOOSE x \in S : \A y \in S : x <= y IN <<n>> \o ValuesOf(S \ {n})

\* results.filter: the first record of each key stays
RECURSIVE DedupResults(_)
DedupResults(rs) ==
    IF rs = <<>> THEN <<>>
    ELSE LET front == DedupResults(SubSeq(rs, 1, Len(rs) - 1)) IN
         IF rs[Len(rs)] \in Range(front) THEN front ELSE Append(front, rs[Len(rs)])

\* const stack = [root]; const visited = new Set() / walk(payload)
InitWalk ==
    /\ CrawlIdle
    /\ OnePageIdle
    /\ MergeIdle
    /\ ExtractIdle
    /\ ClassifyIdle
    /\ HandlersIdle
    /\ CycleIdle
    /\ wpc = "walking"
    /\ wVariant \in WalkVariants
    /\ wChildren \in [Nodes -> SUBSET Nodes]
    /\ wItem \in [name : ItemNames, url : ItemUrls]
    /\ wStack = <<1>> /\ wVisited = {}
    /\ wCount = [n \in Nodes |-> 0]
    /\ wResults = <<>>

\* one container is taken up.  part_001: node = stack.pop(); visited -> continue;
\* visited.add(node); the candidate test; every object value is pushed.
\* main.js: walk(node) tests the candidate and calls walk on every value (the
\* calls still to be made are the stack); nothing records the containers
\* it has been in.
W_Step ==
    /\ wpc = "walking" /\ wStack # <<>>
    /\ LET node == wStack[Len(wStack)]
           rest == SubSeq(wStack, 1, Len(wStack) - 1)
       IN IF wVariant = "stack" /\ node \in wVisited
          THEN /\ wStack' = rest
               /\ UNCHANGED <<wVisited, wCount, wResults>>
          ELSE /\ wCount[node] < MaxVisits
               /\ wCount' = [wCount EXCEPT ![node] = @ + 1]
               /\ wVisited' = IF wVariant = "stack" THEN wVisited \cup {node} ELSE wVisited
               /\ wResults' = IF wVariant = "stack"
                              THEN wResults \o WalkCandidate(wVariant, wItem)
                              ELSE DedupResults(wResults \o WalkCandidate(wVariant, wItem))
               /\ wStack' = rest \o ValuesOf(wChildren[node])
    /\ UNCHANGED <<wpc, wVariant, wChildren, wItem>>

\* the stack is empty / the outermost walk returns: the results are returned
W_Return ==
    /\ wpc = "walking" /\ wStack = <<>>
    /\ wResults' = DedupResults(wResults)
    /\ wpc' = "returned"
    /\ UNCHANGED <<wVariant, wChildren, wItem, wStack, wVisited, wCount>>

NextWalk ==
    /\ (W_Step \/ W_Return)
    /\ UNCHANGED <<crawlVars, cycleVars, onePageVars, mergeVars, extractVars, classifyVars, handlerVars>>

SpecWalk == InitWalk /\ [][NextWalk]_vars

(* ------------- a run over a fixed pagination graph --------------------- *)
\* maxPages = 0 and maxLawyers = 0: no budget test of the page loop or of a
\* handler is ever true, and the counters those tests read decide nothing.
\* yLinks[u] is the URL findNextPageUrl resolves on the page at u (0: none);
\* it is the same every time the page is fetched.
\* the HTTP loop of part_001 ("hybrid", with its rendered crawler after a
\* blocked page) and the CheerioCrawler of main.js ("cheerio")
InitCycle ==
    /\ CrawlIdle
    /\ OnePageIdle
    /\ MergeIdle
    /\ ExtractIdle
    /\ ClassifyIdle
    /\ HandlersIdle
    /\ WalkIdle
    /\ yVariant \in {"hybrid", "cheerio"}
    /\ yLinks \in [Urls -> 0..NumUrls]
    /\ ypc = IF yVariant = "hybrid" THEN "loop" ELSE "crawl"
    /\ yMode = "lightweight"
    /\ yUrl = IF yVariant = "hybrid" THEN 1 ELSE 0
    /\ yQueue = IF yVariant = "hybrid" THEN <<>> ELSE <<1>>
    /\ yKnown = IF yVariant = "hybrid" THEN {} ELSE {1}
    /\ yRetry = 0 /\ yHandled = 0

\* maxRequestsPerCrawl of the crawler that is running, 0 if it has none
CycleRequestCap == IF yMode = "rendered" THEN FallbackRequestCap(0) ELSE 0

CycleLimitHit == CycleRequestCap > 0 /\ yHandled >= CycleRequestCap

\* one iteration of while (nextUrl): fetch; blocked -> runBrowserFallback and
\* break; else extract, dedup, push; nextUrl = findNextPageUrl(...) || '';
\* if (!nextUrl) break
Y_Iterate ==
    /\ ypc = "loop" /\ yUrl # 0
    /\ \E outcome \in FetchOutcomes :
         CASE outcome = "error" ->
                  /\ ypc' = "aborted"
                  /\ UNCHANGED <<yMode, yUrl, yQueue, yKnown, yHandled>>
           [] outcome = "blocked" ->
                  /\ ypc' = "crawl"
                  /\ yMode' = "rendered"
                  /\ yQueue' = <<yUrl>> /\ yKnown' = {yUrl} /\ yHandled' = 0
                  /\ UNCHANGED yUrl
           [] outcome = "ok" ->
                  /\ yUrl' = yLinks[yUrl]
                  /\ ypc' = IF yLinks[yUrl] = 0 THEN "stats" ELSE "loop"
                  /\ UNCHANGED <<yMode, yQueue, yKnown, yHandled>>
    /\ UNCHANGED <<yVariant, yLinks, yRetry>>

\* the crawler takes the head request: a failed request and a handled one
\* leave the queue; the handler enqueues the next page under its uniqueKey
Y_Request ==
    /\ ypc = "crawl" /\ yQueue # <<>> /\ ~CycleLimitHit
    /\ \E outcome \in FetchOutcomes :
         LET u == Head(yQueue)
             nxt == yLinks[u]
         IN CASE outcome = "error" ->
                     /\ yQueue' = Tail(yQueue)
                     /\ yHandled' = yHandled + 1
                     /\ yRetry' = 0
                     /\ UNCHANGED yKnown
              [] outcome = "blocked" /\ yMode = "lightweight" /\ yRetry < BlockedRetryLimit ->
                     /\ yRetry' = yRetry + 1
                     /\ UNCHANGED <<yQueue, yKnown, yHandled>>
              [] OTHER ->
                     /\ IF nxt # 0 /\ (yMode = "rendered" \/ nxt # u)
                        THEN /\ yQueue' = Enqueue(Tail(yQueue), yKnown, nxt)
                             /\ yKnown' = yKnown \cup {nxt}
                        ELSE /\ yQueue' = Tail(yQueue)
                             /\ UNCHANGED yKnown
                     /\ yHandled' = yHandled + 1
                     /\ yRetry' = 0
    /\ UNCHANGED <<ypc, yVariant, yLinks, yMode, yUrl>>

\* crawler.run resolves
Y_CrawlEnd ==
    /\ ypc = "crawl" /\ (yQueue = <<>> \/ CycleLimitHit)
    /\ ypc' = "stats"
    /\ UNCHANGED <<yVariant, yLinks, yMode, yUrl, yQueue, yKnown, yRetry, yHandled>>

\* the statistics are written and the run ends
Y_Finish ==
    /\ ypc = "stats"
    /\ ypc' = "done"
    /\ UNCHANGED <<yVariant, yLinks, yMode, yUrl, yQueue, yKnown, yRetry, yHandled>>

NextCycle ==
    /\ (Y_Iterate \/ Y_Request \/ Y_CrawlEnd \/ Y_Finish)
    /\ UNCHANGED <<crawlVars, onePageVars, mergeVars, extractVars, classifyVars,
                   handlerVars, walkVars>>

\* the event loop runs whatever step is ready
SpecCycle == InitCycle /\ [][NextCycle]_vars /\ WF_vars(NextCycle)

(* ------------------------------ claims --------------------------------- *)
SameIdentity(a, b) ==
    a.url = b.url /\ a.name = b.name /\ a.location = b.location /\ a.firmName = b.firmName

\* C1: within one run no identity key (profile URL, else name|location|firmName)
\* is handed to the sink more than once, also across an escalation.
C1_NoKeyStoredTwice == KeyInjective(sink)

\* C2: with maxLawyers = N > 0 never more than N records are handed to the
\* sink, no listing page is fetched once N records are stored, and a run
\* whose pages offered more than N distinct candidates ends with exactly N.
C2_RecordBudgetExact ==
    maxLawyers > 0 =>
        /\ Len(sink) <= maxLawyers
        /\ (lastFetch.kind = "listing" => ~lastFetch.afterFull)
        /\ (pc = "done" /\ Cardinality(offered) > maxLawyers
                => Len(sink) = maxLawyers)

\* C3: with maxPages = M > 0 at most M listing pages are processed in one
\* run, the pages processed in rendered mode after an escalation included.
C3_PageBudget == maxPages > 0 => listingHandled <= maxPages

\* C4: once a listing page has been classified blocked, every later fetch of
\* the run uses the rendered transport.
C4_RenderedAfterBlock == lastFetch.afterBlock => lastFetch.mode = "rendered"

\* C5: a blocked classification is not an error: the mode switches to
\* rendered and the first fetch after it is the same URL, rendered.
C5_BlockedEscalatesAndRefetches ==
    /\ (EverBlocked => mode = "rendered" /\ ~threw)
    /\ (lastFetch.firstAfterBlock =>
            /\ lastFetch.kind = "listing"
            /\ lastFetch.mode = "rendered"
            /\ lastFetch.url = blockedUrl)

PriorityOrder == <<"api", "embedded", "jsonld", "next-data", "html">>

RECURSIVE FirstNonEmptyFrom(_, _)
FirstNonEmptyFrom(o, i) ==
    IF i > Len(PriorityOrder) THEN <<>>
    ELSE IF o[PriorityOrder[i]] # <<>> THEN o[PriorityOrder[i]]
    ELSE FirstNonEmptyFrom(o, i + 1)

\* C6: the candidates of a page are the output of the first extractor, in
\* priority order, that returned a non-empty list (JSON-LD before HTML), and
\* the HTML extractor runs only when every structured extractor was empty.
C6_CascadePriority ==
    invoked # {} =>
        /\ lawyers = FirstNonEmptyFrom(outs, 1)
        /\ ("html" \in invoked => \A e \in invoked \ {"html"} : outs[e] = <<>>)

\* candidates of the page admitted by the dedup loop that are the record r
AdmittedCount(r) ==
    Cardinality({i \in 1..Len(pUnique) : SameIdentity(pUnique[i], r)})

\* C7: of a page's candidates without profile URL that the ledger has not
\* seen, those with identical name, location and firmName are admitted once,
\* and candidates that differ in one of the three fields are each admitted
\* (record budget unlimited).
C7_CompositeKeyFallback ==
    (ppc = "deduped" /\ pMaxLawyers = 0) =>
        \A i \in 1..Len(lawyers) :
            (lawyers[i].url = <<>> /\ CompositeKey(lawyers[i]) \notin pSeen)
                => AdmittedCount(lawyers[i]) = 1

\* C8: enrichment never replaces a non-empty base field by an empty value:
\* when detail page and JSON-LD yield nothing the merged field is the base's.
C8_MergeKeepsBase ==
    mpc = "merged" =>
        /\ (~IsEmpty(mBase) => ~IsEmpty(mMerged))
        /\ (IsEmpty(mDetail) /\ IsEmpty(mLd) => mMerged = mBase)

\* C9: for every merged field, when the detail page has no explicit value
\* and its JSON-LD has a non-empty one, the merged value is the JSON-LD value.
C9_MergePrecedence ==
    (mpc = "merged" /\ mOutcome = "ok" /\ IsEmpty(mDetail) /\ ~IsEmpty(mLd))
        => mMerged = mLd

\* no page handler is running and no request is pending
RunEnding ==
    \/ pc \in {"stats", "done"}
    \/ (pc \in {"c_pick", "fb_pick"} /\ queue = <<>>)

\* C10: the step in which next-page resolution returns empty raises no
\* exception, and from then on no further fetch is issued and the run is
\* ending: no handler is running, no request is pending, statistics follow.
C10_NoNextEndsRun ==
    [][ /\ (noNext' /\ ~noNext => threw' = threw)
        /\ (noNext' => RunEnding')
        /\ ~lastFetch'.afterNoNext ]_vars

C10_Witness ==
    /\ noNext /\ pc = "done" /\ stats.written
    /\ listingHandled >= 2

\* the records the step hands to the sink
Handed == SubSeq(sink', Len(sink) + 1, Len(sink'))

\* C11: a blocked or failed detail fetch never ends the run with an error,
\* and the batch the page hands to the sink holds every admitted record, the
\* base record unchanged at each position whose detail fetch was blocked or
\* failed.
C11_EnrichmentFailureKeepsBase ==
    [][ /\ error' # "detail-fetch"
        /\ (sink' # sink =>
               /\ Len(Handed) = Len(unique)
               /\ \A i \in detailKept' : Handed[i] = unique[i]) ]_vars

\* C12: after a listing fetch that ended in a transport failure, and until
\* the next fetch, the run has raised no error: the page is skipped (no
\* handler runs on it), the crawl is at the choice of the next page or at
\* its normal end, and a finished run has written its statistics.
C12_ListingFetchFailureSkipsPage ==
    (lastFetch.kind = "listing" /\ lastFetch.failed) =>
        /\ error = "none"
        /\ pc \in {"c_pick", "fb_pick", "stats", "done"}
        /\ (pc = "done" => stats.written)

\* C13: an extractor call returns, whatever its input: it raises nothing on
\* an unparsable document, on null or non-object elements, on an @type that
\* is not a string or on a rejected follow-up fetch, and an input that
\* yields no usable document gives the empty list.
C13_ExtractorsNeverThrow ==
    (xpc = "returned" /\ MalformedInput) =>
        /\ ~xResult.threw
        /\ (xInput.fetch = "rejects" \/ ~xInput.doc.parsed => xResult.n = 0)

\* the page budget and the record budget are not used up; the rendered
\* crawler counts against the budgets it was started with
BudgetsRemain ==
    IF pc = "fb_next"
    THEN /\ ~(fbMaxLawyers > 0 /\ Cardinality(fbSeen) >= fbMaxLawyers)
         /\ handled + 1 < fbMaxRequests
    ELSE ~RecordBudgetHit /\ ~PageBudgetHit

\* the resolved URL is the next thing the run fetches and no budget stops it
NextPagePending ==
    IF pc = "next"
    THEN /\ pc' = "loop" /\ curUrl' = nextResolved'
         /\ ~PageBudgetHit' /\ ~RecordBudgetHit'
    ELSE /\ pc' = (IF pc = "fb_next" THEN "fb_pick" ELSE "c_pick")
         /\ queue' # <<>> /\ Head(queue') = nextResolved'
         /\ IF pc = "fb_next" THEN handled' < fbMaxRequests ELSE ~CrawlLimitHit'

\* C14: when the handler of a zero-yield page resolves a next-page URL not
\* requested before while the budgets remain, the step raises nothing and
\* leaves that URL as the next page the run fetches.
C14_ZeroYieldContinues ==
    [][ ( /\ pc \in {"next", "fb_next", "c_next"}
          /\ pageYield = "zero"
          /\ BudgetsRemain
          /\ nextResolved' # 0
          /\ (pc # "next" => nextResolved' \notin known) )
        => /\ error' = "none" /\ threw' = threw
           /\ NextPagePending ]_vars

\* two pages were handled in a row and neither yielded a candidate
C14_Witness ==
    /\ listingHandled >= 2 /\ offered = {} /\ pageYield = "zero"
    /\ error = "none"

\* the text holds a letter / a character that is not white space
HasLetter(f) == \E i \in 1..Len(f.text) : f.text[i] \in {"a", "A"}
HasNonBlank(f) == \E i \in 1..Len(f.text) : f.text[i] # " "

\* C15: when searchUrl is absent or blank and practiceArea or location is
\* absent or holds no letter or digit, resolving the start URL ends the run
\* with the invalid-input error, no fetch issued and no record in the sink.
C15_InvalidInputFailsBeforeFetch ==
    [][ ( /\ pc = "input"
          /\ ~HasNonBlank(input.searchUrl)
          /\ (~HasLetter(input.practiceArea) \/ ~HasLetter(input.location)) )
        => /\ error' = "invalid-input" /\ pc' = "aborted"
           /\ lastFetch' = NoFetch /\ sink' = <<>> ]_vars

\* a blank searchUrl and a practiceArea of symbols only: the run has failed
C15_Witness ==
    /\ pc = "aborted" /\ error = "invalid-input"
    /\ input.searchUrl.present
    /\ input.practiceArea.text # <<>> /\ HasLetter(input.location)
    /\ lastFetch = NoFetch /\ sink = <<>>

\* the record as the listing extractors produced it
BaseOf(r) == [r EXCEPT !.enr = "base"]

\* C16: the hand-off of a page gives the sink the records the ledger admitted
\* on that page, one output record for each, in the order of admission, with
\* or without enrichment.
C16_BatchInAdmissionOrder ==
    [][ (pc \in {"push", "fb_push", "c_push"} /\ pc' # pc)
        => /\ Len(Handed) = Len(admitted)
           /\ \A i \in 1..Len(admitted) : BaseOf(Handed[i]) = admitted[i] ]_vars

\* C17: the record total of the statistics written at run end is the number
\* of records handed to the sink during the run, whatever the fetch mode.
C17_StatsCountStoredRecords ==
    stats.written => stats.totalLawyersScraped = Len(sink)

\* the handler of the page is past the point where it decides on a snapshot
SnapshotDecided == pc \in {"enrich", "push", "next", "fb_push", "fb_next", "c_next"}

\* C18: once a page's handler is past its snapshot decision, a diagnostic
\* snapshot of the page has been written exactly when debug is set in the
\* input and the page yielded no extracted record.
C18_SnapshotIffDebugAndZeroYield ==
    SnapshotDecided => (snapshot <=> (input.debug = "true" /\ pageYield = "zero"))

\* a detail-page fetch has been issued in the run
DetailFetched == lastFetch.kind = "detail"

\* C19: a detail-page fetch is issued only in a run whose input sets
\* fetchFullProfiles to true; with false or with the field absent no detail
\* page is fetched.
C19_DetailFetchOnlyWhenAsked ==
    DetailFetched => input.fetchFullProfiles = "true"

\* the number of listing pages after which the running loop or crawler stops
\* by itself, 0 if it has no such number
PageCapInForce ==
    IF mode = "rendered" THEN fbMaxRequests
    ELSE IF maxPages > 0 THEN maxPages ELSE 0

\* C20: in a run with maxPages = 0 no cap on the number of listing pages is
\* in force, in lightweight mode and in rendered mode after an escalation.
C20_ZeroMaxPagesIsUnlimited ==
    maxPages = 0 => PageCapInForce = 0


\* C21: a listing response is classified blocked exactly when its status is
\* 403, 429 or 503 or the case-folded leading portion of its body holds one
\* of the challenge phrases the program looks for.
C21_BlockedIffStatusOrPhrase ==
    kpc = "classified" =>
        (kBlocked <=> \/ kResponse.status \in {403, 429, 503}
                      \/ IncludesPhrase(LowerChunks(kResponse.lead), kVariant))

\* the step is the hand-off of a page's batch to the sink
AtHandOff == pc \in {"push", "fb_push", "c_push"}

\* C22: the run counters move only with a page's hand-off to the sink: the
\* record counter never exceeds the number of records the sink holds, and
\* the page counter is advanced by no step other than a hand-off.
C22_CountersAfterCommit ==
    [][ /\ totalScraped' <= Len(sink')
        /\ (pagesProcessed' # pagesProcessed => AtHandOff) ]_vars

\* slots whose handler is between the start of its fetch and the end of its
\* next-page resolution
Processing == {i \in Slots : hSlots[i].pos \in {"handling", "deduped", "pushed"}}

\* C23: at any moment at most one listing page is being processed: while a
\* handler is fetching, extracting, deduplicating, enriching, pushing or
\* resolving the next page, no other handler has started, although the
\* crawler has more than one slot.
C23_OnePageAtATime == Cardinality(Processing) <= 1

\* a handler that has enqueued the next page has not returned yet while
\* another slot already processes that page
C23_Witness ==
    \E i, j \in Slots :
        /\ hSlots[i].pos = "enqueued" /\ hSlots[j].pos \in {"handling", "deduped", "pushed"}
        /\ hSlots[j].url # hSlots[i].url

\* C24: under every interleaving of the handlers at their awaits no identity
\* key is admitted to the ledger twice: the dedup loops' admissions, in the
\* order they happened, never repeat a key.
C24_AdmissionAtomic == Injective(hAdmitLog)

\* while a handler that admitted a record has not returned yet, the dedup
\* loop of another handler met a candidate of the same key
C24_Witness ==
    \E i, j \in Slots :
        /\ i # j /\ hSlots[i].pos = "enqueued" /\ hSlots[j].pos = "deduped"
        /\ \E n \in 1..Len(hSlots[i].unique) : DedupKey(hSlots[i].unique[n]) \in hSlots[j].dup

ItemExamined == wpc # "idle" /\ wCount[1] >= 1

\* C26: the element the walk examines is dropped exactly when it has neither
\* a name nor a profile URL that resolves: with a resolvable URL and no name
\* it is kept under the name 'Unknown Name', with a name and no URL it is
\* kept under its name.
C26_DropOnlyNamelessUrlless ==
    ItemExamined =>
        /\ (wResults = <<>> <=> (wItem.name = "" /\ AbsoluteUrl(wItem.url) = ""))
        /\ \A i \in 1..Len(wResults) :
               /\ wResults[i].name = (IF wItem.name = "" THEN "Unknown Name" ELSE wItem.name)
               /\ wResults[i].website = AbsoluteUrl(wItem.url)

\* C27: with unlimited budgets every run over every pagination graph, self
\* links and cycles included, comes to its end.
C27_RunTerminates == <>(ypc \in {"done", "aborted"})

\* the run has ended, normally or with an uncaught error
RunEnded == pc \in {"done", "aborted"}

\* C28: no admitted record is lost: when the run has ended, normally or by an
\* error raised after admission, every key a deduplication ledger holds is
\* the key of a record the sink was handed.
C28_AdmittedReachSink == RunEnded => (seenWebsites \cup fbSeen) \subseteq Keys(sink)

\* C29: in the CheerioCrawler variant an attempt is failed for blocking only
\* while retryCount < 2, and the request stays queued for its next attempt; at
\* retryCount >= 2 an attempt that got a response, blocked or not, goes on to
\* extraction and the request is not failed; a blocked page that leaves the
\* hand-off is counted in pagesProcessed; no fetch of the run is rendered.
C29_BlockedRetriedTwiceThenProcessed ==
    [][ variant = "cheerio" =>
          /\ (retryCount' > retryCount =>
                /\ retryCount < BlockedRetryLimit
                /\ retryCount' = retryCount + 1
                /\ pc' = "c_pick" /\ queue' = queue /\ handled' = handled)
          /\ (pc = "c_pick" /\ retryCount >= BlockedRetryLimit
                /\ lastFetch' # lastFetch /\ ~lastFetch'.failed
              => pc' = "c_extract" /\ handled' = handled)
          /\ (pc = "c_push" /\ pageBlocked /\ pc' # pc
              => pagesProcessed' = pagesProcessed + 1)
          /\ mode' = "lightweight" /\ lastFetch'.mode # "rendered" ]_vars

\* a page that was still blocked on the attempt after two blocked retries has
\* been extracted, handed off and counted
C29_Witness ==
    /\ variant = "cheerio" /\ pc = "c_next"
    /\ pageBlocked /\ retryCount = BlockedRetryLimit
    /\ pagesProcessed >= 1

\* C30: with fetchFullProfiles on, a hand-off that gives the sink a record
\* with a profile URL comes after a detail fetch for the page's batch, with
\* no other fetch in between, in lightweight and in rendered mode.
C30_EnrichedBeforeHandOff ==
    [][ (fetchFullProfiles /\ \E i \in 1..Len(Handed) : Handed[i].url # <<>>)
        => lastFetch'.kind = "detail" ]_vars
====
